---- MODULE Spec2Model ----
(***************************************************************************)
(* Highlight curation and timestamp remapping of backend/server.ts         *)
(* (processVideo, the four ensure*InHighlights passes, the two trimming    *)
(* stages, the scenery fallback, mapToHighlightTime and migrateSessions).  *)
(*                                                                         *)
(* Times at the boundary are "M:SS" strings.  A string is modelled as a    *)
(* record: k = "str" with its minute and second parts, k = "none" for a    *)
(* missing / empty string, k = "null" for the null that mapToHighlightTime *)
(* returns.  All arithmetic is on whole seconds.                           *)
(***************************************************************************)
EXTENDS Integers, Sequences, FiniteSets, TLC

VARIABLES pc, videoDuration, input, highlights, highlightTimestamps,
          friends, scenery, dietaryHabits, safetyAlerts, narrativeSegments,
          sorted, kept, currentDuration, friendsIncluded, cursor,
          trimmedLog, readySnapshot, migrations,
          moodData, timeline, moodDataHighlight, timelineHighlight,
          taskA, clips, frames,
          mergeInput, mergeResult,
          poolItems, poolConcurrency, poolCursor, runners, calls, finished, poolState

(* Task A (generateHighlights) and the frames Task B extracts. *)
extractionVars == <<taskA, clips, frames>>

(* The argument and the result of one call of mergeOverlappingSegments. *)
mergerVars == <<mergeInput, mergeResult>>

(* One call of runWithConcurrencyLimit: the number of items, the concurrency  *)
(* asked for, the shared cursor, the runners, how often the worker was       *)
(* invoked for each index, the indices whose invocation has settled, and the *)
(* state of the promise the call returns.                                    *)
poolVars == <<poolItems, poolConcurrency, poolCursor, runners, calls, finished, poolState>>

(* What no step of processVideo or migrateSessions touches. *)
otherVars == <<mergerVars, poolVars>>

PoolIdle ==
    /\ poolItems = 0
    /\ poolConcurrency = 0
    /\ poolCursor = 0
    /\ runners = <<>>
    /\ calls = <<>>
    /\ finished = {}
    /\ poolState = "idle"

vars == <<pc, videoDuration, input, highlights, highlightTimestamps,
          friends, scenery, dietaryHabits, safetyAlerts, narrativeSegments,
          sorted, kept, currentDuration, friendsIncluded, cursor,
          trimmedLog, readySnapshot, migrations,
          moodData, timeline, moodDataHighlight, timelineHighlight,
          extractionVars, otherVars>>

-----------------------------------------------------------------------------
(* Time strings *)

T(m, s) == [k |-> "str", m |-> m, s |-> s]
NoTime == [k |-> "none", m |-> 0, s |-> 0]
Null == [k |-> "null", m |-> 0, s |-> 0]

Truthy(t) == t.k = "str"

timeToSeconds(t) == IF ~Truthy(t) THEN 0 ELSE t.m * 60 + t.s

secondsToTime(n) == T(n \div 60, n % 60)

Min(a, b) == IF a <= b THEN a ELSE b
Max(a, b) == IF a >= b THEN a ELSE b

Range(s) == {s[i] : i \in 1..Len(s)}

(* Array.prototype.sort with comparator key(a) - key(b): stable, ascending. *)
RECURSIVE SortAsc(_, _)
SortAsc(s, key) ==
    IF Len(s) <= 1 THEN s
    ELSE LET rest == SortAsc(SubSeq(s, 1, Len(s) - 1), key)
             x == s[Len(s)]
             p == Cardinality({i \in 1..Len(rest) : key[rest[i]] <= key[x]})
         IN SubSeq(rest, 1, p) \o <<x>> \o SubSeq(rest, p + 1, Len(rest))

(* .sort((a, b) => timeToSeconds(a.start) - timeToSeconds(b.start)) *)
SortByStart(segs) ==
    SortAsc(segs, [x \in Range(segs) |-> timeToSeconds(x.start)])

SegLen(seg) == timeToSeconds(seg.end) - timeToSeconds(seg.start)

RECURSIVE calculateDuration(_)
calculateDuration(segs) ==
    IF segs = <<>> THEN 0
    ELSE SegLen(segs[1]) + calculateDuration(Tail(segs))

Contains(seg, t) == t >= timeToSeconds(seg.start) /\ t <= timeToSeconds(seg.end)

Covered(segs, t) == \E i \in 1..Len(segs) : Contains(segs[i], t)

(* A highlight segment.  Absent optional fields: source "", friendName "",  *)
(* score 0, flags FALSE.                                                    *)
Seg(start, end, source, score, friendName, hq, near) ==
    [start |-> start, end |-> end, source |-> source, score |-> score,
     friendName |-> friendName, isHighQuality |-> hq, isNearFriend |-> near]

-----------------------------------------------------------------------------
(* Signal normalizer *)

clamp(value, min, max) == Min(max, Max(min, value))

(* Math.round(a / b) for a >= 0, b > 0 *)
RoundDiv(a, b) == (2 * a + b) \div (2 * b)

ALLOWED_TIMELINE_ICONS ==
    {"visibility", "pets", "directions_walk", "directions_run", "favorite", "explore", "speed",
     "park", "home", "restaurant", "bolt", "terrain", "forest", "brush", "groups", "stairs",
     "waves", "search", "wb_sunny", "nightlight_round", "sports_score", "trending_up",
     "trending_down", "straighten", "room", "auto_fix_high", "grass", "meeting_room", "roofing",
     "south", "error", "timeline"}

(* The elements of a set of integers in ascending order. *)
RECURSIVE Ascending(_)
Ascending(S) ==
    IF S = {} THEN <<>>
    ELSE LET m == CHOOSE x \in S : \A y \in S : x <= y
         IN <<m>> \o Ascending(S \ {m})

(* The while loop of pickEvenIndices: fill from the lowest unused index. *)
RECURSIVE PickFill(_, _, _)
PickFill(indices, cur, target) ==
    IF Cardinality(indices) >= target THEN indices
    ELSE PickFill(indices \cup {cur}, cur + 1, target)

pickEvenIndices(length, target) ==
    IF target <= 0 \/ length <= 0 THEN <<>>
    ELSE IF target >= length THEN [i \in 1..length |-> i - 1]
    ELSE LET indices == {0, length - 1} \cup
                        {RoundDiv(i * (length - 1), target - 1) : i \in 1..(target - 2)}
             final == Ascending(PickFill(indices, 0, target))
         IN SubSeq(final, 1, target)

RECURSIVE InterpLoop(_, _, _)
InterpLoop(points, targetSec, i) ==
    IF i > Len(points) THEN [num |-> points[Len(points)].value, den |-> 1]
    ELSE LET right == points[i]
             left == points[i - 1]
             span == right.sec - left.sec
         IN IF targetSec <= right.sec
            THEN IF span <= 0 THEN [num |-> right.value, den |-> 1]
                 ELSE [num |-> left.value * span
                                + (right.value - left.value) * (targetSec - left.sec),
                       den |-> span]
            ELSE InterpLoop(points, targetSec, i + 1)

(* The interpolated value as an exact fraction num / den. *)
interpolateMoodValue(points, targetSec) ==
    IF Len(points) = 0 THEN [num |-> 50, den |-> 1]
    ELSE IF Len(points) = 1 THEN [num |-> points[1].value, den |-> 1]
    ELSE IF targetSec <= points[1].sec THEN [num |-> points[1].value, den |-> 1]
    ELSE InterpLoop(points, targetSec, 2)

(* new Map over sec-sorted entries, then values sorted by sec: one entry per *)
(* second, the last one given for that second.                              *)
DedupeBySec(cleaned) ==
    LET secs == {cleaned[i].sec : i \in 1..Len(cleaned)}
        lastOf(sec) == cleaned[CHOOSE i \in 1..Len(cleaned) :
                                  /\ cleaned[i].sec = sec
                                  /\ \A j \in (i + 1)..Len(cleaned) : cleaned[j].sec # sec]
        firsts == SelectSeq([i \in 1..Len(cleaned) |->
                                [e |-> cleaned[i],
                                 first |-> \A j \in 1..(i - 1) : cleaned[j].sec # cleaned[i].sec]],
                            LAMBDA x : x.first)
    IN [i \in 1..Len(firsts) |-> lastOf(firsts[i].e.sec)]

(* server.ts 1540-1554: clamp, sort by second, one point per second *)
CleanedMoodPoints(moodInput, safeDuration) ==
    LET mapped == [i \in 1..Len(moodInput) |->
                      [sec |-> clamp(timeToSeconds(moodInput[i].name), 0, safeDuration),
                       value |-> clamp(moodInput[i].value, 0, 100)]]
        cleaned == SortAsc(mapped, [x \in Range(mapped) |-> x.sec])
        deduped == DedupeBySec(cleaned)
    IN SortAsc(deduped, [x \in Range(deduped) |-> x.sec])

(* Mutant: no boundary point is added at the start. *)
MoodControlPointsNoStart(moodInput, safeDuration) ==
    LET points == CleanedMoodPoints(moodInput, safeDuration)
    IN IF Len(points) = 0
       THEN <<[sec |-> 0, value |-> 50], [sec |-> safeDuration, value |-> 50]>>
       ELSE IF points[Len(points)].sec < safeDuration
            THEN Append(points, [sec |-> safeDuration, value |-> points[Len(points)].value])
            ELSE points

(* server.ts 1556-1569: the control points, with their boundary points *)
MoodControlPoints(moodInput, safeDuration) ==
    LET points == CleanedMoodPoints(moodInput, safeDuration)
    IN IF Len(points) = 0
       THEN <<[sec |-> 0, value |-> 50], [sec |-> safeDuration, value |-> 50]>>
       ELSE LET p1 == IF points[1].sec > 0
                      THEN <<[sec |-> 0, value |-> points[1].value]>> \o points
                      ELSE points
            IN IF p1[Len(p1)].sec < safeDuration
               THEN Append(p1, [sec |-> safeDuration, value |-> p1[Len(p1)].value])
               ELSE p1

(* Mutant: the grid size is not clamped to [20, 30]. *)
normalizeMoodDataUnclamped(moodInput, vd) ==
    LET safeDuration == Max(1, vd)
        points == MoodControlPoints(moodInput, safeDuration)
        targetCount == RoundDiv(safeDuration, 12)
    IN [k \in 1..targetCount |->
           LET i == k - 1
               sec == IF i = targetCount - 1 THEN safeDuration
                      ELSE RoundDiv(i * safeDuration, targetCount - 1)
               v == interpolateMoodValue(points, sec)
           IN [name |-> secondsToTime(sec),
               value |-> clamp(RoundDiv(v.num, v.den), 0, 100)]]

(* server.ts 1535-1580 *)
normalizeMoodData(moodInput, vd) ==
    LET safeDuration == Max(1, vd)
        points == MoodControlPoints(moodInput, safeDuration)
        targetCount == clamp(RoundDiv(safeDuration, 12), 20, 30)
    IN [k \in 1..targetCount |->
           LET i == k - 1
               sec == IF i = targetCount - 1 THEN safeDuration
                      ELSE RoundDiv(i * safeDuration, targetCount - 1)
               v == interpolateMoodValue(points, sec)
           IN [name |-> secondsToTime(sec),
               value |-> clamp(RoundDiv(v.num, v.den), 0, 100)]]

timelineLabelFromMood(value) ==
    IF value >= 85 THEN [label |-> "Zoomies Peak", icon |-> "speed"]
    ELSE IF value >= 70 THEN [label |-> "Play Burst", icon |-> "directions_run"]
    ELSE IF value >= 55 THEN [label |-> "Curious Patrol", icon |-> "explore"]
    ELSE IF value >= 40 THEN [label |-> "Steady Cruise", icon |-> "directions_walk"]
    ELSE [label |-> "Quiet Reset", icon |-> "home"]

Abs(x) == IF x < 0 THEN 0 - x ELSE x

secExistsNearby(entries, sec, threshold) ==
    \E i \in 1..Len(entries) : Abs(entries[i].sec - sec) <= threshold

StoryBeat(n) == "Story Beat " \o ToString(n)

(* Backfill from the most interesting mood samples. *)
RECURSIVE MoodBackfill(_, _, _, _, _)
MoodBackfill(entries, moodCandidates, i, targetCount, safeDuration) ==
    IF i > Len(moodCandidates) \/ Len(entries) >= targetCount THEN entries
    ELSE LET candidate == moodCandidates[i] IN
         IF candidate.sec < 0 \/ candidate.sec > safeDuration
            \/ secExistsNearby(entries, candidate.sec, 12)
         THEN MoodBackfill(entries, moodCandidates, i + 1, targetCount, safeDuration)
         ELSE MoodBackfill(Append(entries,
                               [sec |-> candidate.sec,
                                label |-> timelineLabelFromMood(candidate.value).label,
                                icon |-> timelineLabelFromMood(candidate.value).icon]),
                           moodCandidates, i + 1, targetCount, safeDuration)

(* Evenly spaced filler: fillerIndex and fillerAttempts                       *)
(* advance together, so at most the indices 1..300 are tried; each call jumps *)
(* to the next index whose second has no entry within 8 seconds.              *)
RECURSIVE FillerLoop(_, _, _)
FillerLoop(entries, fillerIndex, safeDuration) ==
    LET free == {i \in fillerIndex..300 :
                    ~secExistsNearby(entries, RoundDiv(i * safeDuration, 15), 8)}
    IN IF Len(entries) >= 15 \/ free = {} THEN entries
       ELSE LET i == CHOOSE x \in free : \A y \in free : x <= y
            IN FillerLoop(Append(entries, [sec |-> RoundDiv(i * safeDuration, 15),
                                           label |-> StoryBeat(Len(entries) + 1),
                                           icon |-> "timeline"]),
                          i + 1, safeDuration)

(* Ultra-short fallback: dense placeholders. *)
RECURSIVE DenseLoop(_, _)
DenseLoop(entries, safeDuration) ==
    IF Len(entries) >= 15 THEN entries
    ELSE DenseLoop(Append(entries, [sec |-> clamp(Len(entries) - 1, 0, safeDuration),
                                    label |-> StoryBeat(Len(entries) + 1),
                                    icon |-> "timeline"]),
                   safeDuration)

(* Mutant: an over-long list is not thinned. *)
DownSampleNone(entries) ==
    entries

(* server.ts 1612-1614, 1668-1670 *)
DownSample(entries) ==
    IF Len(entries) > 20
    THEN LET idx == pickEvenIndices(Len(entries), 20)
         IN [i \in 1..Len(idx) |-> entries[idx[i] + 1]]
    ELSE entries

normalizeTimeline(timelineInput, mood, vd) ==
    LET safeDuration == Max(1, vd)
        targetCount == clamp(RoundDiv(safeDuration, 24), 15, 20)
        mapped == [i \in 1..Len(timelineInput) |->
                      [sec |-> clamp(timeToSeconds(timelineInput[i].time), 0, safeDuration),
                       label |-> IF timelineInput[i].label = "" THEN "Story Beat"
                                 ELSE timelineInput[i].label,
                       icon |-> IF timelineInput[i].icon \in ALLOWED_TIMELINE_ICONS
                                THEN timelineInput[i].icon ELSE "timeline"]]
        normalized == SortAsc(mapped, [x \in Range(mapped) |-> x.sec])
        deduped == DedupeBySec(normalized)
        entries0 == DownSample(SortAsc(deduped, [x \in Range(deduped) |-> x.sec]))
        moodPoints == [i \in 1..Len(mood) |->
                          [sec |-> timeToSeconds(mood[i].name), value |-> mood[i].value]]
        moodCandidates == SortAsc(moodPoints,
                                  [x \in Range(moodPoints) |-> 0 - Abs(x.value - 50)])
        entries1 == IF Len(entries0) < 15
                    THEN MoodBackfill(entries0, moodCandidates, 1, targetCount, safeDuration)
                    ELSE entries0
        entries2 == FillerLoop(entries1, 1, safeDuration)
        entries3 == DenseLoop(entries2, safeDuration)
        entries4 == DownSample(SortAsc(entries3, [x \in Range(entries3) |-> x.sec]))
    IN [i \in 1..Len(entries4) |->
           [time |-> secondsToTime(entries4[i].sec), label |-> entries4[i].label,
            icon |-> entries4[i].icon]]

-----------------------------------------------------------------------------
(* Segment merger *)

getSourcePriority(source) ==
    CASE source = "safety" -> 100
      [] source = "friend+scenery" -> 95
      [] source = "friend" -> 80
      [] source = "food" -> 60
      [] source = "scenery" -> 40
      [] OTHER -> 10

(* Mutant: the merged segment keeps its own end instead of extending to the later one. *)
MergeIntoKeepEnd(current, next) ==
    [current EXCEPT !.isHighQuality = current.isHighQuality \/ next.isHighQuality,
                    !.score = Max(current.score, next.score),
                    !.source = IF getSourcePriority(next.source) > getSourcePriority(current.source)
                               THEN next.source ELSE current.source]

(* Body of the merge branch: `current` after absorbing `next`. *)
MergeInto(current, next) ==
    LET c1 == IF timeToSeconds(next.end) > timeToSeconds(current.end)
              THEN [current EXCEPT !.end = next.end] ELSE current
        srcs == {current.source, next.source} \ {""}
        hasFriend == "friend" \in srcs \/ "friend+scenery" \in srcs
        hasScenery == "scenery" \in srcs \/ "friend+scenery" \in srcs
        c2 == IF hasFriend /\ hasScenery
              THEN [c1 EXCEPT !.source = "friend+scenery",
                              !.friendName = IF c1.friendName # "" THEN c1.friendName
                                             ELSE next.friendName]
              ELSE IF getSourcePriority(next.source) > getSourcePriority(c1.source)
              THEN [c1 EXCEPT !.source = next.source,
                              !.friendName = IF next.friendName # "" THEN next.friendName
                                             ELSE c1.friendName]
              ELSE c1
    IN [c2 EXCEPT !.isHighQuality = c2.isHighQuality \/ next.isHighQuality,
                  !.score = Max(c2.score, next.score)]

(* Mutant: only overlapping or touching segments are merged, not those up to 2s apart. *)
RECURSIVE MergeLoopNoTolerance(_, _, _, _)
MergeLoopNoTolerance(segments, i, current, merged) ==
    IF i > Len(segments) THEN Append(merged, current)
    ELSE LET next == segments[i] IN
         IF timeToSeconds(next.start) <= timeToSeconds(current.end)
         THEN MergeLoopNoTolerance(segments, i + 1, MergeInto(current, next), merged)
         ELSE MergeLoopNoTolerance(segments, i + 1, next, Append(merged, current))

RECURSIVE MergeLoop(_, _, _, _)
MergeLoop(segments, i, current, merged) ==
    IF i > Len(segments) THEN Append(merged, current)
    ELSE LET next == segments[i] IN
         IF timeToSeconds(next.start) <= timeToSeconds(current.end) + 2
         THEN MergeLoop(segments, i + 1, MergeInto(current, next), merged)
         ELSE MergeLoop(segments, i + 1, next, Append(merged, current))

mergeOverlappingSegments(segments) ==
    IF Len(segments) <= 1 THEN segments
    ELSE MergeLoop(segments, 2, segments[1], <<>>)

-----------------------------------------------------------------------------
(* Coverage guarantors *)

(* Mutant: the fallback to friend.timestamp is taken even when it is missing. *)
FriendOccurrencesUnchecked(friend) ==
    IF Len(friend.timestamps) > 0 THEN friend.timestamps
    ELSE <<[time |-> friend.timestamp, duration |-> friend.duration, originalTime |-> NoTime]>>

(* friend.timestamps?.length > 0 ? friend.timestamps                        *)
(*   : friend.timestamp ? [{time, duration}] : []   (<<>> = absent array)   *)
FriendOccurrences(friend) ==
    IF Len(friend.timestamps) > 0 THEN friend.timestamps
    ELSE IF Truthy(friend.timestamp)
         THEN <<[time |-> friend.timestamp, duration |-> friend.duration,
                 originalTime |-> NoTime]>>
         ELSE <<>>

(* ts.duration || friend.duration || 5 *)
FriendDuration(ts, friend) ==
    IF ts.duration # 0 THEN ts.duration
    ELSE IF friend.duration # 0 THEN friend.duration ELSE 5

FriendSegmentNoPreRoll(friend, ts, vd, bufferSeconds) ==
    Seg(secondsToTime(Max(0, timeToSeconds(ts.time))),
        secondsToTime(Min(vd, timeToSeconds(ts.time)
                              + Max(FriendDuration(ts, friend), bufferSeconds))),
        "friend", 0, friend.name, FALSE, FALSE)

FriendSegment(friend, ts, vd, bufferSeconds) ==
    LET friendTime == timeToSeconds(ts.time)
        newSegStart == Max(0, friendTime - bufferSeconds)
        newSegEnd == Min(vd, friendTime + Max(FriendDuration(ts, friend), bufferSeconds))
    IN Seg(secondsToTime(newSegStart), secondsToTime(newSegEnd), "friend", 0,
           friend.name, FALSE, FALSE)

RECURSIVE FriendOccLoop(_, _, _, _, _, _)
FriendOccLoop(segments, friend, occs, j, vd, bufferSeconds) ==
    IF j > Len(occs) THEN segments
    ELSE LET ts == occs[j]
             isIncluded == Covered(segments, timeToSeconds(ts.time))
         IN FriendOccLoop(IF isIncluded THEN segments
                          ELSE Append(segments, FriendSegment(friend, ts, vd, bufferSeconds)),
                          friend, occs, j + 1, vd, bufferSeconds)

RECURSIVE FriendLoop(_, _, _, _, _)
FriendLoop(segments, fs, i, vd, bufferSeconds) ==
    IF i > Len(fs) THEN segments
    ELSE FriendLoop(FriendOccLoop(segments, fs[i], FriendOccurrences(fs[i]), 1, vd, bufferSeconds),
                    fs, i + 1, vd, bufferSeconds)

(* Mutant: the friend pass copies, sorts and merges even without friends. *)
ensureFriendsInHighlightsAlways(fs, hl, vd, bufferSeconds) ==
    mergeOverlappingSegments(SortByStart(FriendLoop(hl, fs, 1, vd, bufferSeconds)))

ensureFriendsInHighlights(fs, hl, vd, bufferSeconds) ==
    IF Len(fs) = 0 THEN hl
    ELSE mergeOverlappingSegments(SortByStart(FriendLoop(hl, fs, 1, vd, bufferSeconds)))

(* scenery.filter(s => s.stayDuration >= 3 && s.timestamp) *)
SignificantScenery(sc) ==
    SelectSeq(sc, LAMBDA s : s.stayDuration >= 3 /\ Truthy(s.timestamp))

FirstCovering(segments, t) ==
    IF Covered(segments, t)
    THEN CHOOSE i \in 1..Len(segments) :
            /\ Contains(segments[i], t)
            /\ \A j \in 1..(i - 1) : ~Contains(segments[j], t)
    ELSE 0

(* The existing segment that already covers a scenery moment, re-tagged. *)
MarkScenery(existingSeg, isHighQuality) ==
    LET s1 == IF existingSeg.source = "friend"
              THEN [existingSeg EXCEPT !.source = "friend+scenery"]
              ELSE IF existingSeg.source = "" \/ existingSeg.source = "ai"
              THEN [existingSeg EXCEPT !.source = "scenery"]
              ELSE existingSeg
    IN IF isHighQuality THEN [s1 EXCEPT !.isHighQuality = TRUE] ELSE s1

ScenerySegment(segments, scene, vd, bufferSeconds) ==
    LET sceneTime == timeToSeconds(scene.timestamp)
        sceneDuration == IF scene.stayDuration # 0 THEN scene.stayDuration ELSE 5
        clipDuration == Min(sceneDuration, 5)
        newSegStart == Max(0, sceneTime - bufferSeconds)
        newSegEnd == Min(vd, sceneTime + clipDuration)
        hasNearbyFriend ==
            \E i \in 1..Len(segments) :
                /\ segments[i].source \in {"friend", "friend+scenery"}
                /\ LET gapAfter == timeToSeconds(segments[i].start) - newSegEnd
                       gapBefore == newSegStart - timeToSeconds(segments[i].end)
                   IN (gapAfter >= 0 /\ gapAfter <= 10) \/ (gapBefore >= 0 /\ gapBefore <= 10)
    IN Seg(secondsToTime(newSegStart), secondsToTime(newSegEnd), "scenery", 0, "",
           sceneDuration >= 5, hasNearbyFriend)

RECURSIVE SceneryLoop(_, _, _, _, _)
SceneryLoop(segments, sig, i, vd, bufferSeconds) ==
    IF i > Len(sig) THEN segments
    ELSE LET scene == sig[i]
             sceneDuration == IF scene.stayDuration # 0 THEN scene.stayDuration ELSE 5
             existingSegmentIndex == FirstCovering(segments, timeToSeconds(scene.timestamp))
         IN SceneryLoop(
                IF existingSegmentIndex > 0
                THEN [segments EXCEPT ![existingSegmentIndex] =
                          MarkScenery(segments[existingSegmentIndex], sceneDuration >= 5)]
                ELSE Append(segments, ScenerySegment(segments, scene, vd, bufferSeconds)),
                sig, i + 1, vd, bufferSeconds)

ensureSceneryInHighlights(sc, hl, vd, bufferSeconds) ==
    IF Len(sc) = 0 THEN hl
    ELSE mergeOverlappingSegments(
             SortByStart(SceneryLoop(hl, SignificantScenery(sc), 1, vd, bufferSeconds)))

FoodSegment(habit, vd, bufferSeconds) ==
    LET foodTime == timeToSeconds(habit.timestamp)
        clipDuration == 3
    IN Seg(secondsToTime(Max(0, foodTime - bufferSeconds)),
           secondsToTime(Min(vd, foodTime + clipDuration)), "food", 0, "", FALSE, FALSE)

RECURSIVE FoodLoop(_, _, _, _, _)
FoodLoop(segments, habits, i, vd, bufferSeconds) ==
    IF i > Len(habits) THEN segments
    ELSE LET habit == habits[i] IN
         FoodLoop(IF ~Truthy(habit.timestamp) THEN segments
                  ELSE IF Covered(segments, timeToSeconds(habit.timestamp)) THEN segments
                  ELSE Append(segments, FoodSegment(habit, vd, bufferSeconds)),
                  habits, i + 1, vd, bufferSeconds)

ensureFoodInHighlights(habits, hl, vd, bufferSeconds) ==
    IF Len(habits) = 0 THEN hl
    ELSE mergeOverlappingSegments(SortByStart(FoodLoop(hl, habits, 1, vd, bufferSeconds)))

SafetySegment(alert, vd, bufferSeconds) ==
    LET alertTime == timeToSeconds(alert.timestamp)
        clipDuration == IF alert.type = "danger" THEN 4 ELSE 3
    IN Seg(secondsToTime(Max(0, alertTime - bufferSeconds)),
           secondsToTime(Min(vd, alertTime + clipDuration)), "safety", 0, "", FALSE, FALSE)

RECURSIVE SafetyLoop(_, _, _, _, _)
SafetyLoop(segments, alerts, i, vd, bufferSeconds) ==
    IF i > Len(alerts) THEN segments
    ELSE LET alert == alerts[i] IN
         SafetyLoop(IF ~Truthy(alert.timestamp) THEN segments
                    ELSE IF Covered(segments, timeToSeconds(alert.timestamp)) THEN segments
                    ELSE Append(segments, SafetySegment(alert, vd, bufferSeconds)),
                    alerts, i + 1, vd, bufferSeconds)

ensureSafetyAlertsInHighlights(alerts, hl, vd, bufferSeconds) ==
    IF Len(alerts) = 0 THEN hl
    ELSE mergeOverlappingSegments(SortByStart(SafetyLoop(hl, alerts, 1, vd, bufferSeconds)))

-----------------------------------------------------------------------------
(* Timeline mapper *)

RECURSIVE MapLoop(_, _, _, _)
MapLoop(t, hl, i, highlightOffset) ==
    IF i > Len(hl) THEN Null
    ELSE IF Contains(hl[i], t)
         THEN secondsToTime(highlightOffset + (t - timeToSeconds(hl[i].start)))
         ELSE MapLoop(t, hl, i + 1, highlightOffset + SegLen(hl[i]))

mapToHighlightTimeUnshifted(originalTimeStr, hl) ==
    IF Len(hl) = 0 THEN Null
    ELSE IF MapLoop(timeToSeconds(originalTimeStr), hl, 1, 0) = Null THEN Null
         ELSE originalTimeStr

mapToHighlightTime(originalTimeStr, hl) ==
    IF Len(hl) = 0 THEN Null
    ELSE MapLoop(timeToSeconds(originalTimeStr), hl, 1, 0)

(* Mutant: an item outside the cut is kept, at its original time. *)
MapAndFilterItemKeepAll(item, timeField, originalField, hl) ==
    IF ~Truthy(item[timeField]) THEN <<>>
    ELSE LET sourceTime == IF originalField \in DOMAIN item /\ Truthy(item[originalField])
                           THEN item[originalField] ELSE item[timeField]
             mappedTime == mapToHighlightTime(sourceTime, hl)
         IN << [f \in DOMAIN item \cup {originalField, "isMapped"} |->
                   IF f = originalField THEN sourceTime
                   ELSE IF f = timeField
                        THEN (IF mappedTime = Null THEN sourceTime ELSE mappedTime)
                   ELSE IF f = "isMapped" THEN TRUE
                   ELSE item[f]] >>

(* One item of mapAndFilterForHighlight: <<>> when the item is skipped, else *)
(* the copy with its original time, its highlight time and the marker.       *)
MapAndFilterItem(item, timeField, originalField, hl) ==
    IF ~Truthy(item[timeField]) THEN <<>>
    ELSE LET sourceTime == IF originalField \in DOMAIN item /\ Truthy(item[originalField])
                           THEN item[originalField] ELSE item[timeField]
             mappedTime == mapToHighlightTime(sourceTime, hl)
         IN IF mappedTime = Null THEN <<>>
            ELSE << [f \in DOMAIN item \cup {originalField, "isMapped"} |->
                        IF f = originalField THEN sourceTime
                        ELSE IF f = timeField THEN mappedTime
                        ELSE IF f = "isMapped" THEN TRUE
                        ELSE item[f]] >>

RECURSIVE MapAndFilterLoop(_, _, _, _, _)
MapAndFilterLoop(arr, i, timeField, originalField, hl) ==
    IF i > Len(arr) THEN <<>>
    ELSE MapAndFilterItem(arr[i], timeField, originalField, hl)
         \o MapAndFilterLoop(arr, i + 1, timeField, originalField, hl)

mapAndFilterForHighlight(arr, timeField, originalField, hl) ==
    IF Len(hl) = 0 THEN <<>>
    ELSE MapAndFilterLoop(arr, 1, timeField, originalField, hl)

-----------------------------------------------------------------------------
(* Budget trimmer *)

MAX_HIGHLIGHT_DURATION == 120
Stage1Limit == 120
ImportanceBonus == 50
Overage == 5

(* friends.flatMap(f => f.timestamps?.map(t => timeToSeconds(t.time))        *)
(*                      || [timeToSeconds(f.timestamp)]).filter(Boolean)     *)
friendTimes(fs) ==
    UNION {IF Len(fs[i].timestamps) > 0
           THEN {timeToSeconds(fs[i].timestamps[j].time) : j \in 1..Len(fs[i].timestamps)}
           ELSE {timeToSeconds(fs[i].timestamp)} : i \in 1..Len(fs)} \ {0}

highQualitySceneryTimes(sc) ==
    {timeToSeconds(sc[i].timestamp) :
        i \in {j \in 1..Len(sc) : sc[j].stayDuration >= 5 /\ Truthy(sc[j].timestamp)}}

coversImportantContent(clip, fs, sc) ==
    \/ \E t \in friendTimes(fs) : Contains(clip, t)
    \/ \E t \in highQualitySceneryTimes(sc) : Contains(clip, t)

getEnhancedScore(clip, fs, sc) ==
    clip.score + (IF coversImportantContent(clip, fs, sc) THEN ImportanceBonus ELSE 0)

RECURSIVE GreedyKeep(_, _, _, _)
GreedyKeep(srt, i, acc, dur) ==
    IF i > Len(srt) THEN acc
    ELSE IF dur + SegLen(srt[i]) <= Stage1Limit
         THEN GreedyKeep(srt, i + 1, Append(acc, srt[i]), dur + SegLen(srt[i]))
         ELSE GreedyKeep(srt, i + 1, acc, dur)

(* Mutant: the accepted clips stay in rank order. *)
Stage1KeepRankOrder(hl, fs, sc) ==
    IF calculateDuration(hl) > Stage1Limit
    THEN LET srt == SortAsc(hl, [x \in Range(hl) |-> 0 - getEnhancedScore(x, fs, sc)])
         IN GreedyKeep(srt, 1, <<>>, 0)
    ELSE hl

(* server.ts 2208-2259 *)
Stage1(hl, fs, sc) ==
    IF calculateDuration(hl) > Stage1Limit
    THEN LET srt == SortAsc(hl, [x \in Range(hl) |-> 0 - getEnhancedScore(x, fs, sc)])
         IN SortByStart(GreedyKeep(srt, 1, <<>>, 0))
    ELSE hl

getPriority(clip) ==
    CASE clip.source = "safety" -> 100
      [] clip.source = "friend+scenery" -> 95
      [] clip.source = "scenery" /\ clip.isNearFriend -> 85
      [] clip.source = "friend" -> 80
      [] clip.source = "scenery" /\ clip.isHighQuality -> 75
      [] clip.source = "food" -> 60
      [] clip.source = "scenery" -> 50
      [] OTHER -> IF clip.score >= 15 THEN 30
                  ELSE IF clip.score >= 10 THEN 20 ELSE 10

-----------------------------------------------------------------------------
(* Inputs: what analyzeVideo can return for one video.  An analysis of the    *)
(* pooled family holds at most MaxRaw candidates, at most MaxEvents events   *)
(* over the four event classes, and at most MaxItems of both together.       *)

MaxRaw == 2
MaxEvents == 3
MaxMigrations == 2
MaxItems == 4

Cand(a, b, score) == Seg(secondsToTime(a), secondsToTime(b), "", score, "", FALSE, FALSE)

RawPool == << Cand(0, 113, 12), Cand(0, 118, 18), Cand(10, 30, 8), Cand(130, 135, 5) >>

Occ(t, d) == [time |-> secondsToTime(t), duration |-> d, originalTime |-> NoTime]

Friend(name, ts, occs, d) ==
    [name |-> name, timestamp |-> ts, best_photo_timestamp |-> NoTime,
     timestamps |-> occs, duration |-> d, originalTimestamp |-> NoTime, isMapped |-> FALSE]

FriendPool == << Friend("Buddy", T(2, 28), <<Occ(148, 3)>>, 3),
                 Friend("Max", T(2, 10), <<>>, 5),
                 Friend("Luna", T(0, 0), <<Occ(0, 0), Occ(60, 4)>>, 4),
                 Friend("Ghost", NoTime, <<>>, 0) >>

Scene(ts, stay) == [timestamp |-> ts, stayDuration |-> stay, isNearFriend |-> FALSE,
                    originalTime |-> NoTime, isMapped |-> FALSE]

SceneryPool == << Scene(T(2, 1), 3), Scene(T(0, 25), 20), Scene(T(1, 2), 4), Scene(T(1, 30), 2) >>

Habit(ts) == [timestamp |-> ts, originalTime |-> NoTime]

FoodPool == << Habit(T(0, 45)), Habit(NoTime) >>

Alert(ts, type) == [timestamp |-> ts, type |-> type]

SafetyPool == << Alert(T(1, 54), "warning"), Alert(T(2, 6), "danger"), Alert(T(1, 59), "warning") >>

Narr(ts) == [timestamp |-> ts, originalTime |-> NoTime, inHighlight |-> FALSE, isMapped |-> FALSE]

NarrativeInput == << Narr(T(0, 12)), Narr(T(2, 1)), Narr(T(2, 12)) >>

DurationPool == {150}

Mood(ts, value) == [name |-> ts, value |-> value]

MoodInput == << Mood(T(0, 30), 80), Mood(T(2, 0), 20), Mood(T(0, 30), 65) >>

Beat(ts, label, icon) == [time |-> ts, label |-> label, icon |-> icon]

TimelineInput == << Beat(T(0, 10), "Wake up", "pets"), Beat(T(2, 5), "", "sparkles") >>

(* Further videos, whose analyses are written out one by one. *)
Analysis(raw, fs, sc, habits, alerts, narr, mood, tl) ==
    [highlightTimestamps |-> raw, friends |-> fs, scenery |-> sc, dietaryHabits |-> habits,
     safetyAlerts |-> alerts, narrativeSegments |-> narr, moodData |-> mood, timeline |-> tl,
     coverTimestamp |-> NoTime]

(* Scenario 1: one ai-scored candidate 0:00-0:10 and one recurring subject   *)
(* seen once at 1:00 for 4s, in a 90s video.                                 *)
Scenario1 ==
    Analysis(<<Cand(0, 10, 10)>>, <<Friend("Rex", T(1, 0), <<Occ(60, 4)>>, 4)>>,
             <<>>, <<>>, <<>>, <<Narr(T(1, 2))>>, MoodInput, TimelineInput)

(* The same 90s video, for which the analysis also names the cover moment.   *)
CoverChosen == [Scenario1 EXCEPT !.coverTimestamp = T(0, 7)]

(* A 90s video whose analysis holds one annotation without a timestamp in   *)
(* each event class: the first of two occurrences of a recurring subject, a  *)
(* scenery moment, a feeding event and a safety alert.                       *)
UntimedAnnotations ==
    Analysis(<<Cand(20, 30, 10)>>,
             <<Friend("Rex", T(1, 0), <<[time |-> NoTime, duration |-> 4, originalTime |-> NoTime],
                                        Occ(60, 4)>>, 4)>>,
             <<Scene(NoTime, 4)>>, <<Habit(NoTime)>>, <<Alert(NoTime, "danger")>>,
             <<Narr(T(1, 2))>>, MoodInput, TimelineInput)

(* Scenario 3: Stage 2 reaches the safety segment of a danger alert with    *)
(* 118s already accepted. Safety clips have the highest priority, so the     *)
(* accepted 118s are an earlier safety segment (candidate 0:00-1:54 merged   *)
(* with the clip of a warning at 1:55), in a 180s video.                     *)
Scenario3 ==
    Analysis(<<Cand(0, 114, 12)>>, <<>>, <<>>, <<>>,
             <<Alert(T(1, 55), "warning"), Alert(T(2, 10), "danger")>>,
             <<Narr(T(2, 10))>>, MoodInput, TimelineInput)

(* Scenario 2: eight ai-scored candidates summing to 140s, listed out of     *)
(* chronological order, no other event class, in a 200s video.               *)
Scenario2 ==
    Analysis(<<Cand(70, 90, 16), Cand(0, 30, 14), Cand(170, 175, 6), Cand(140, 150, 10),
               Cand(35, 65, 18), Cand(155, 165, 8), Cand(120, 135, 12), Cand(95, 115, 20)>>,
             <<>>, <<>>, <<>>, <<>>, <<Narr(T(0, 12))>>, MoodInput, TimelineInput)

(* A 240s video whose safety content fills 117s of the budget, with a        *)
(* recurring subject at 2:30, a scenery moment next to it (2:40, dwell 3s)   *)
(* and a longer one far from it (3:20, dwell 4s).                            *)
SceneryNearSubject ==
    Analysis(<<Cand(0, 113, 12)>>, <<Friend("Rex", T(2, 30), <<Occ(150, 4)>>, 4)>>,
             <<Scene(T(2, 40), 3), Scene(T(3, 20), 4)>>, <<>>,
             <<Alert(T(1, 54), "warning")>>, <<Narr(T(2, 40))>>, MoodInput, TimelineInput)

(* A 210s video with two candidates of 60s and 70s, the later one scored     *)
(* higher, and a recurring subject seen once, at 0:00 for 4s.                *)
SubjectAtStart ==
    Analysis(<<Cand(0, 60, 10), Cand(70, 140, 11)>>, <<Friend("Rex", T(0, 0), <<Occ(0, 4)>>, 4)>>,
             <<>>, <<>>, <<>>, <<Narr(T(0, 12))>>, MoodInput, TimelineInput)

(* Videos analysed for their mood curve and timeline: every mood sequence of *)
(* at most MaxMood distinct points of MoodPool (out-of-range values, a       *)
(* missing time, two points on the same second) with an empty, a sparse or   *)
(* an over-long timeline, for durations from a failed probe (0) upwards.     *)
MaxMood == 2

MoodPool == << Mood(T(0, 30), 80), Mood(T(0, 0), 20), Mood(T(2, 0), 130), Mood(NoTime, 0 - 5) >>

MoodChoices ==
    {[i \in 1..Len(f) |-> MoodPool[f[i]]] :
        f \in {g \in UNION {[1..n -> 1..Len(MoodPool)] : n \in 0..MaxMood} :
                  \A a, b \in DOMAIN g : a # b => g[a] # g[b]}}

LongTimeline == [i \in 1..22 |-> Beat(secondsToTime(2 * i), "Beat", "pets")]

TimelineChoices == {<<>>, TimelineInput, LongTimeline}

SignalDurations == {0, 3, 60, 300, 400}

SignalAnalyses(vd) ==
    {Analysis(IF vd >= 3 THEN <<Cand(0, 3, 5)>> ELSE <<>>, <<>>, <<>>, <<>>, <<>>, <<>>, m, t) :
        m \in MoodChoices, t \in TimelineChoices}

ScenarioDurations == {90, 180, 200, 210, 240} \cup SignalDurations

ScenarioAnalyses(vd) ==
    CASE vd = 90 -> {Scenario1, UntimedAnnotations, CoverChosen}
      [] vd = 180 -> {Scenario3}
      [] vd = 200 -> {Scenario2}
      [] vd = 210 -> {SubjectAtStart}
      [] vd = 240 -> {SceneryNearSubject}
      [] vd \in SignalDurations -> SignalAnalyses(vd)
      [] OTHER -> {}

RECURSIVE Pick(_, _, _)
Pick(pool, I, i) ==
    IF i > Len(pool) THEN <<>>
    ELSE (IF i \in I THEN <<pool[i]>> ELSE <<>>) \o Pick(pool, I, i + 1)

RawChoices ==
    {[i \in 1..Len(f) |-> RawPool[f[i]]] :
        f \in {g \in UNION {[1..n -> 1..Len(RawPool)] : n \in 0..MaxRaw} :
                  \A a, b \in DOMAIN g : a # b => g[a] # g[b]}}

-----------------------------------------------------------------------------
(* processVideo, from the call of analyzeVideo on *)

NoAnalysis ==
    [highlightTimestamps |-> <<>>, friends |-> <<>>, scenery |-> <<>>,
     dietaryHabits |-> <<>>, safetyAlerts |-> <<>>, narrativeSegments |-> <<>>,
     moodData |-> <<>>, timeline |-> <<>>, coverTimestamp |-> NoTime]

Init ==
    /\ pc = "analyze"
    /\ videoDuration \in DurationPool \cup ScenarioDurations
    /\ input = NoAnalysis
    /\ highlightTimestamps = <<>>
    /\ friends = <<>>
    /\ scenery = <<>>
    /\ dietaryHabits = <<>>
    /\ safetyAlerts = <<>>
    /\ narrativeSegments = <<>>
    /\ moodData = <<>>
    /\ timeline = <<>>
    /\ moodDataHighlight = <<>>
    /\ timelineHighlight = <<>>
    /\ highlights = <<>>
    /\ sorted = <<>>
    /\ kept = <<>>
    /\ currentDuration = 0
    /\ friendsIncluded = {}
    /\ cursor = 0
    /\ trimmedLog = <<>>
    /\ readySnapshot = <<>>
    /\ migrations = 0
    /\ taskA = "idle"
    /\ clips = <<>>
    /\ frames = {}
    /\ mergeInput = <<>>
    /\ mergeResult = <<>>
    /\ PoolIdle

pipelineLocals == <<sorted, kept, currentDuration, friendsIncluded, cursor, trimmedLog>>
annotations == <<friends, scenery, dietaryHabits, safetyAlerts, narrativeSegments>>
sessionVars == <<readySnapshot, migrations>>
signals == <<moodData, timeline, moodDataHighlight, timelineHighlight>>

(* analyzeVideo returns the analysis of the video; the generated signals are *)
(* normalized before any highlight-based mapping, and the candidate list is  *)
(* read into the local highlights.                                           *)
AnalyzeVideo ==
    /\ pc = "analyze"
    /\ IF videoDuration \in DurationPool
       THEN /\ moodData' = normalizeMoodData(MoodInput, videoDuration)
            /\ timeline' = normalizeTimeline(TimelineInput, moodData', videoDuration)
            /\ highlightTimestamps' \in RawChoices
            /\ \E F \in SUBSET (1..Len(FriendPool)), S \in SUBSET (1..Len(SceneryPool)),
                  H \in SUBSET (1..Len(FoodPool)), A \in SUBSET (1..Len(SafetyPool)) :
                  /\ Cardinality(F) + Cardinality(S) + Cardinality(H) + Cardinality(A)
                        <= MaxEvents
                  /\ Len(highlightTimestamps') + Cardinality(F) + Cardinality(S)
                        + Cardinality(H) + Cardinality(A) <= MaxItems
                  /\ friends' = Pick(FriendPool, F, 1)
                  /\ scenery' = Pick(SceneryPool, S, 1)
                  /\ dietaryHabits' = Pick(FoodPool, H, 1)
                  /\ safetyAlerts' = Pick(SafetyPool, A, 1)
            /\ narrativeSegments' = NarrativeInput
            /\ input' = [highlightTimestamps |-> highlightTimestamps', friends |-> friends',
                         scenery |-> scenery', dietaryHabits |-> dietaryHabits',
                         safetyAlerts |-> safetyAlerts',
                         narrativeSegments |-> narrativeSegments',
                         moodData |-> MoodInput, timeline |-> TimelineInput,
                         coverTimestamp |-> NoTime]
       ELSE \E a \in ScenarioAnalyses(videoDuration) :
              /\ moodData' = normalizeMoodData(a.moodData, videoDuration)
              /\ timeline' = normalizeTimeline(a.timeline, moodData', videoDuration)
              /\ highlightTimestamps' = a.highlightTimestamps
              /\ friends' = a.friends
              /\ scenery' = a.scenery
              /\ dietaryHabits' = a.dietaryHabits
              /\ safetyAlerts' = a.safetyAlerts
              /\ narrativeSegments' = a.narrativeSegments
              /\ input' = a
    /\ highlights' = highlightTimestamps'
    /\ pc' = "stage1"
    /\ UNCHANGED <<otherVars, extractionVars, videoDuration, pipelineLocals, sessionVars, moodDataHighlight,
                   timelineHighlight>>

(* server.ts 2208-2259: coarse trim by enhanced score *)
Stage1Trim ==
    /\ pc = "stage1"
    /\ highlights' = Stage1(highlights, friends, scenery)
    /\ pc' = "cap"
    /\ UNCHANGED <<otherVars, extractionVars, videoDuration, input, highlightTimestamps, annotations,
                   pipelineLocals, sessionVars, signals>>

(* server.ts 2261-2269 *)
CapStayDuration ==
    /\ pc = "cap"
    /\ scenery' = [i \in 1..Len(scenery) |->
                      IF scenery[i].stayDuration > 15
                      THEN [scenery[i] EXCEPT !.stayDuration = 15] ELSE scenery[i]]
    /\ pc' = "friends"
    /\ UNCHANGED <<otherVars, extractionVars, videoDuration, input, highlights, highlightTimestamps, friends,
                   dietaryHabits, safetyAlerts, narrativeSegments, pipelineLocals, sessionVars,
                   signals>>

EnsureFriends ==
    /\ pc = "friends"
    /\ highlights' = ensureFriendsInHighlights(friends, highlights, videoDuration, 3)
    /\ pc' = "scenery"
    /\ UNCHANGED <<otherVars, extractionVars, videoDuration, input, highlightTimestamps, annotations,
                   pipelineLocals, sessionVars, signals>>

EnsureScenery ==
    /\ pc = "scenery"
    /\ highlights' = ensureSceneryInHighlights(scenery, highlights, videoDuration, 2)
    /\ pc' = "food"
    /\ UNCHANGED <<otherVars, extractionVars, videoDuration, input, highlightTimestamps, annotations,
                   pipelineLocals, sessionVars, signals>>

EnsureFood ==
    /\ pc = "food"
    /\ highlights' = ensureFoodInHighlights(dietaryHabits, highlights, videoDuration, 1)
    /\ pc' = "safety"
    /\ UNCHANGED <<otherVars, extractionVars, videoDuration, input, highlightTimestamps, annotations,
                   pipelineLocals, sessionVars, signals>>

EnsureSafety ==
    /\ pc = "safety"
    /\ highlights' = ensureSafetyAlertsInHighlights(safetyAlerts, highlights, videoDuration, 1)
    /\ pc' = "stage2"
    /\ UNCHANGED <<otherVars, extractionVars, videoDuration, input, highlightTimestamps, annotations,
                   pipelineLocals, sessionVars, signals>>

(* server.ts 2304-2330: decide whether to trim, sort by priority *)
Stage2Begin ==
    /\ pc = "stage2"
    /\ IF calculateDuration(highlights) > MAX_HIGHLIGHT_DURATION
       THEN /\ sorted' = SortAsc(highlights, [x \in Range(highlights) |-> 0 - getPriority(x)])
            /\ kept' = <<>>
            /\ currentDuration' = 0
            /\ friendsIncluded' = {}
            /\ cursor' = 1
            /\ pc' = "stage2loop"
       ELSE /\ pc' = "fallback"
            /\ UNCHANGED <<sorted, kept, currentDuration, friendsIncluded, cursor>>
    /\ UNCHANGED <<otherVars, extractionVars, videoDuration, input, highlights, highlightTimestamps, annotations,
                   trimmedLog, sessionVars, signals>>

isOnlyFriendClip(clip, included) ==
    clip.source = "friend" /\ clip.friendName # "" /\ clip.friendName \notin included

(* Mutant: compression is tried whatever budget remains. *)
CompressibleAnyRemaining(clip, cur, included) ==
    /\ cur + SegLen(clip) > MAX_HIGHLIGHT_DURATION
    /\ clip.source = "safety" \/ isOnlyFriendClip(clip, included)

(* server.ts 2340-2361: may the clip be shortened to the remaining budget? *)
Compressible(clip, cur, included) ==
    /\ cur + SegLen(clip) > MAX_HIGHLIGHT_DURATION
    /\ MAX_HIGHLIGHT_DURATION - cur >= 3
    /\ clip.source = "safety" \/ isOnlyFriendClip(clip, included)

(* Mutant: a subject's only clip is accepted without the overage ceiling. *)
AcceptedNoCeiling(clipDuration, onlyFriend, cur) ==
    \/ cur + clipDuration <= MAX_HIGHLIGHT_DURATION
    \/ onlyFriend

(* server.ts 2363-2364: the accept test *)
Accepted(clipDuration, onlyFriend, cur) ==
    \/ cur + clipDuration <= MAX_HIGHLIGHT_DURATION
    \/ onlyFriend /\ cur + clipDuration <= MAX_HIGHLIGHT_DURATION + Overage

(* server.ts 2332-2371: one iteration of the greedy accept loop *)
Stage2Step ==
    /\ pc = "stage2loop"
    /\ cursor <= Len(sorted)
    /\ LET clip0 == sorted[cursor]
           onlyFriend == isOnlyFriendClip(clip0, friendsIncluded)
           remaining == MAX_HIGHLIGHT_DURATION - currentDuration
           compress == Compressible(clip0, currentDuration, friendsIncluded)
           clip == IF compress
                   THEN [clip0 EXCEPT !.end =
                            secondsToTime(timeToSeconds(clip0.start) + Max(3, remaining))]
                   ELSE clip0
           clipDuration == IF compress THEN remaining ELSE SegLen(clip0)
       IN IF Accepted(clipDuration, onlyFriend, currentDuration)
          THEN /\ kept' = Append(kept, clip)
               /\ currentDuration' = currentDuration + clipDuration
               /\ friendsIncluded' = IF clip.friendName # ""
                                     THEN friendsIncluded \cup {clip.friendName}
                                     ELSE friendsIncluded
               /\ UNCHANGED trimmedLog
          ELSE /\ trimmedLog' = Append(trimmedLog,
                                   [clip |-> clip, onlyFriend |-> onlyFriend,
                                    before |-> currentDuration])
               /\ UNCHANGED <<kept, currentDuration, friendsIncluded>>
    /\ cursor' = cursor + 1
    /\ UNCHANGED <<otherVars, extractionVars, pc, sorted, videoDuration, input, highlights, highlightTimestamps,
                   annotations, sessionVars, signals>>

(* server.ts 2373-2375 *)
Stage2End ==
    /\ pc = "stage2loop"
    /\ cursor > Len(sorted)
    /\ highlights' = SortByStart(kept)
    /\ pc' = "fallback"
    /\ UNCHANGED <<otherVars, extractionVars, videoDuration, input, highlightTimestamps, annotations,
                   pipelineLocals, sessionVars, signals>>

(* [...significantScenery].sort(near-friend first, then longest stay)[0] *)
BestScene(sig) ==
    SortAsc(sig, [x \in Range(sig) |->
                    0 - ((IF x.isNearFriend THEN 1000 ELSE 0) + x.stayDuration)])[1]

FallbackSegment(bestScene, vd) ==
    LET t == timeToSeconds(bestScene.timestamp)
        clipLen == Min(IF bestScene.stayDuration # 0 THEN bestScene.stayDuration ELSE 3, 5)
    IN [start |-> Max(0, t - 2), end |-> Min(vd, t + clipLen)]

(* server.ts 2384-2424 *)
sceneryFallback(hl, sc, vd) ==
    LET sig == SignificantScenery(sc) IN
    IF Len(sc) = 0 \/ Len(sig) = 0 THEN hl
    ELSE IF \E i \in 1..Len(sig) : Covered(hl, timeToSeconds(sig[i].timestamp)) THEN hl
    ELSE LET fb == FallbackSegment(BestScene(sig), vd) IN
         IF calculateDuration(hl) + (fb.end - fb.start) <= MAX_HIGHLIGHT_DURATION + Overage
         THEN SortByStart(Append(hl, Seg(secondsToTime(fb.start), secondsToTime(fb.end),
                                         "scenery", 0, "", TRUE, FALSE)))
         ELSE hl

(* server.ts 2381-2427: fallback, then analysisData.highlightTimestamps = highlights *)
SceneryFallback ==
    /\ pc = "fallback"
    /\ highlights' = sceneryFallback(highlights, scenery, videoDuration)
    /\ highlightTimestamps' = highlights'
    /\ pc' = "parallel"
    /\ UNCHANGED <<otherVars, extractionVars, videoDuration, input, annotations, pipelineLocals,
                   sessionVars, signals>>

-----------------------------------------------------------------------------
(* Task A: the highlight video *)

ExtractionArgsFirstClip(hl) ==
    [i \in 1..(IF Len(hl) > 0 THEN 1 ELSE 0) |-> <<hl[i].start, hl[i].end>>]

(* highlightGenerator.ts 63-66 and 94-101: the -ss and -to arguments of the  *)
(* clips, read from analysis.highlightTimestamps in list order before the    *)
(* first await of generateHighlights                                         *)
ExtractionArgs(hl) == [i \in 1..Len(hl) |-> <<hl[i].start, hl[i].end>>]

(* server.ts 2440-2446: Promise.all starts Task A first, which runs up to    *)
(* the first await inside generateHighlights before Task B starts            *)
StartHighlights ==
    /\ pc = "parallel"
    /\ taskA = "idle"
    /\ taskA' = "running"
    /\ clips' = ExtractionArgs(highlightTimestamps)
    /\ pc' = "mapFriends"
    /\ UNCHANGED <<otherVars, frames, videoDuration, input, highlights, highlightTimestamps,
                   annotations, pipelineLocals, sessionVars, signals>>

(* highlightGenerator.ts 101-130 and server.ts 2447-2483: the clips are cut, *)
(* joined and uploaded while Task B runs                                     *)
FinishHighlights ==
    /\ taskA = "running"
    /\ taskA' = "done"
    /\ UNCHANGED <<otherVars, clips, frames, pc, videoDuration, input, highlights,
                   highlightTimestamps, annotations, pipelineLocals, sessionVars, signals>>

-----------------------------------------------------------------------------
(* Task B and stage 9: timestamps rewritten to highlight time *)

(* A frame taken from the original video at the time `time` for the item   *)
(* `index` of an event class.                                                *)
Frame(kind, index, time) == [kind |-> kind, index |-> index, time |-> time]

(* server.ts 2495-2518 and 2635: the time around which the frames of a       *)
(* friend are taken                                                          *)
FriendFrameTime(friend) ==
    IF Truthy(friend.best_photo_timestamp) THEN friend.best_photo_timestamp ELSE friend.timestamp

FriendFrames(fs) ==
    {Frame("friend", i, FriendFrameTime(fs[i])) :
        i \in {j \in 1..Len(fs) : Truthy(FriendFrameTime(fs[j]))}}

(* server.ts 2673-2674 and 2690-2691: extractFrame(videoPath, x.timestamp)   *)
ItemFrames(kind, items) ==
    {Frame(kind, i, items[i].timestamp) :
        i \in {j \in 1..Len(items) : Truthy(items[j].timestamp)}}

(* server.ts 2706 *)
CoverTs(cover, sc) ==
    IF Truthy(cover) THEN cover
    ELSE IF Len(sc) > 0 /\ Truthy(sc[1].timestamp) THEN sc[1].timestamp
    ELSE T(0, 5)

(* server.ts 2494-2667: the friend worker, for a friend with a timestamp *)
MapFriend(friend, hl) ==
    IF ~Truthy(friend.best_photo_timestamp) /\ ~Truthy(friend.timestamp) THEN friend
    ELSE [friend EXCEPT
            !.originalTimestamp = friend.timestamp,
            !.timestamp = mapToHighlightTime(friend.timestamp, hl),
            !.isMapped = TRUE,
            !.timestamps = [j \in 1..Len(friend.timestamps) |->
                               [friend.timestamps[j] EXCEPT
                                   !.originalTime = friend.timestamps[j].time,
                                   !.time = mapToHighlightTime(friend.timestamps[j].time, hl)]]]

MapSceneRewriteFirst(scene, hl) ==
    IF Truthy(scene.timestamp)
    THEN [scene EXCEPT !.originalTime = mapToHighlightTime(scene.timestamp, hl),
                       !.timestamp = mapToHighlightTime(scene.timestamp, hl)]
    ELSE scene

(* server.ts 2672-2683 *)
MapScene(scene, hl) ==
    IF Truthy(scene.timestamp)
    THEN [scene EXCEPT !.originalTime = scene.timestamp,
                       !.timestamp = mapToHighlightTime(scene.timestamp, hl)]
    ELSE scene

(* server.ts 2689-2700 *)
MapHabit(habit, hl) ==
    IF Truthy(habit.timestamp)
    THEN [habit EXCEPT !.originalTime = habit.timestamp,
                       !.timestamp = mapToHighlightTime(habit.timestamp, hl)]
    ELSE habit

(* server.ts 2765-2777 and 2117-2131: mappedTime || seg.timestamp *)
MapNarrative(seg, hl) ==
    LET mappedTime == mapToHighlightTime(seg.timestamp, hl) IN
    [seg EXCEPT !.originalTime = seg.timestamp,
                !.timestamp = IF Truthy(mappedTime) THEN mappedTime ELSE seg.timestamp,
                !.inHighlight = (mappedTime # Null),
                !.isMapped = TRUE]

MapFriends ==
    /\ pc = "mapFriends"
    /\ friends' = [i \in 1..Len(friends) |-> MapFriend(friends[i], highlights)]
    /\ frames' = frames \cup FriendFrames(friends)
    /\ pc' = "mapScenery"
    /\ UNCHANGED <<otherVars, taskA, clips, videoDuration, input, highlights, highlightTimestamps, scenery,
                   dietaryHabits, safetyAlerts, narrativeSegments, pipelineLocals, sessionVars,
                   signals>>

MapScenery ==
    /\ pc = "mapScenery"
    /\ scenery' = [i \in 1..Len(scenery) |-> MapScene(scenery[i], highlights)]
    /\ frames' = frames \cup ItemFrames("scene", scenery)
    /\ pc' = "mapDietary"
    /\ UNCHANGED <<otherVars, taskA, clips, videoDuration, input, highlights, highlightTimestamps, friends,
                   dietaryHabits, safetyAlerts, narrativeSegments, pipelineLocals, sessionVars,
                   signals>>

MapDietary ==
    /\ pc = "mapDietary"
    /\ dietaryHabits' = [i \in 1..Len(dietaryHabits) |-> MapHabit(dietaryHabits[i], highlights)]
    /\ frames' = frames \cup ItemFrames("food", dietaryHabits)
    /\ pc' = "cover"
    /\ UNCHANGED <<otherVars, taskA, clips, videoDuration, input, highlights, highlightTimestamps, friends,
                   scenery, safetyAlerts, narrativeSegments, pipelineLocals, sessionVars,
                   signals>>

(* server.ts 2704-2719 *)
CoverFrame ==
    /\ pc = "cover"
    /\ frames' = frames \cup {Frame("cover", 0, CoverTs(input.coverTimestamp, scenery))}
    /\ pc' = "stage9"
    /\ UNCHANGED <<otherVars, taskA, clips, videoDuration, input, highlights, highlightTimestamps,
                   annotations, pipelineLocals, sessionVars, signals>>

(* server.ts 2440 and 2732-2779: after both tasks of Promise.all are done *)
TimestampMapping ==
    /\ pc = "stage9"
    /\ taskA = "done"
    /\ timelineHighlight' =
           <<mapAndFilterForHighlight(timeline, "time", "originalTime", highlights)>>
    /\ moodDataHighlight' =
           <<mapAndFilterForHighlight(moodData, "name", "originalTime", highlights)>>
    /\ narrativeSegments' = [i \in 1..Len(narrativeSegments) |->
                                MapNarrative(narrativeSegments[i], highlights)]
    /\ pc' = "persist"
    /\ UNCHANGED <<otherVars, extractionVars, videoDuration, input, highlights, highlightTimestamps, friends,
                   scenery, dietaryHabits, safetyAlerts, pipelineLocals, sessionVars,
                   moodData, timeline>>

(* server.ts 2797-2815: the session becomes 'ready' and is persisted *)
SessionReady ==
    /\ pc = "persist"
    /\ pc' = "ready"
    /\ readySnapshot' = <<[friends |-> friends, scenery |-> scenery,
                           narrativeSegments |-> narrativeSegments]>>
    /\ UNCHANGED <<otherVars, extractionVars, videoDuration, input, highlights, highlightTimestamps, annotations,
                   pipelineLocals, migrations, signals>>

-----------------------------------------------------------------------------
(* migrateSessions over the ready session *)

(* mapArrayNoFilter: item[timeField] && !item.isMapped *)
MigrateItem(item, hl) ==
    IF Truthy(item.timestamp) /\ ~item.isMapped
    THEN LET mappedTime == mapToHighlightTime(item.timestamp, hl) IN
         IF mappedTime # Null
         THEN [item EXCEPT !.timestamp = mappedTime, !.isMapped = TRUE]
         ELSE item
    ELSE item

MigrateNarrative(seg, hl) ==
    IF seg.isMapped THEN seg ELSE MapNarrative(seg, hl)

MigrateSessions ==
    /\ pc = "ready"
    /\ migrations < MaxMigrations
    /\ migrations' = migrations + 1
    /\ IF Len(highlightTimestamps) = 0
       THEN UNCHANGED <<friends, scenery, narrativeSegments, timelineHighlight,
                        moodDataHighlight>>
       ELSE /\ friends' = [i \in 1..Len(friends) |->
                              MigrateItem(friends[i], highlightTimestamps)]
            /\ scenery' = [i \in 1..Len(scenery) |->
                              MigrateItem(scenery[i], highlightTimestamps)]
            /\ narrativeSegments' = [i \in 1..Len(narrativeSegments) |->
                                        MigrateNarrative(narrativeSegments[i],
                                                         highlightTimestamps)]
            /\ timelineHighlight' =
                   IF timelineHighlight = <<>>
                   THEN <<mapAndFilterForHighlight(timeline, "time", "originalTime",
                                                   highlightTimestamps)>>
                   ELSE timelineHighlight
            /\ moodDataHighlight' =
                   IF moodDataHighlight = <<>>
                   THEN <<mapAndFilterForHighlight(moodData, "name", "originalTime",
                                                   highlightTimestamps)>>
                   ELSE moodDataHighlight
    /\ UNCHANGED <<otherVars, extractionVars, pc, videoDuration, input, highlights, highlightTimestamps,
                   dietaryHabits, safetyAlerts, pipelineLocals, readySnapshot,
                   moodData, timeline>>

Next ==
    \/ AnalyzeVideo
    \/ Stage1Trim
    \/ CapStayDuration
    \/ EnsureFriends
    \/ EnsureScenery
    \/ EnsureFood
    \/ EnsureSafety
    \/ Stage2Begin
    \/ Stage2Step
    \/ Stage2End
    \/ SceneryFallback
    \/ StartHighlights
    \/ FinishHighlights
    \/ MapFriends
    \/ MapScenery
    \/ MapDietary
    \/ CoverFrame
    \/ TimestampMapping
    \/ SessionReady
    \/ MigrateSessions

Spec == Init /\ [][Next]_vars

-----------------------------------------------------------------------------
(* mergeOverlappingSegments on its own, as each coverage pass calls it on    *)
(* its sorted list: every list of at most MaxSegs segments whose spans are   *)
(* taken in start order from SpanPool (overlapping, nested, equal starts,    *)
(* 2s and 3s apart), with every tag, and with or without a subject name on   *)
(* the tags that name a subject.                                             *)

MaxSegs == 3

SpanPool == << <<0, 10>>, <<5, 20>>, <<5, 8>>, <<12, 15>>, <<22, 30>>, <<33, 40>> >>

TagPool == {"safety", "friend+scenery", "friend", "food", "scenery", ""}

NamesFor(tag) == IF tag \in {"friend", "friend+scenery"} THEN {"Rex", ""} ELSE {""}

TagChoices == UNION {{<<t, n>> : n \in NamesFor(t)} : t \in TagPool}

(* The segment with the span SpanPool[i], tagged and named by choice. *)
SegChoice(i, choice) ==
    Seg(secondsToTime(SpanPool[i][1]), secondsToTime(SpanPool[i][2]), choice[1], 5, choice[2],
        FALSE, FALSE)

(* The j-th smallest of the indices I. *)
NthIndex(I, j) == CHOOSE i \in I : Cardinality({x \in I : x < i}) = j - 1

(* The spans indexed by I in start order, tagged by choice: a list the       *)
(* callers' sort by start can give.                                          *)
SortedList(I, choice) ==
    [j \in 1..Cardinality(I) |-> SegChoice(NthIndex(I, j), choice[NthIndex(I, j)])]

SpanChoices == {I \in SUBSET (1..Len(SpanPool)) : Cardinality(I) <= MaxSegs}

processState == <<videoDuration, input, highlights, highlightTimestamps, annotations,
                  pipelineLocals, sessionVars, signals, extractionVars>>

(* No video is being processed. *)
ProcessIdle ==
    /\ videoDuration = 0
    /\ input = NoAnalysis
    /\ highlights = <<>>
    /\ highlightTimestamps = <<>>
    /\ friends = <<>>
    /\ scenery = <<>>
    /\ dietaryHabits = <<>>
    /\ safetyAlerts = <<>>
    /\ narrativeSegments = <<>>
    /\ moodData = <<>>
    /\ timeline = <<>>
    /\ moodDataHighlight = <<>>
    /\ timelineHighlight = <<>>
    /\ sorted = <<>>
    /\ kept = <<>>
    /\ currentDuration = 0
    /\ friendsIncluded = {}
    /\ cursor = 0
    /\ trimmedLog = <<>>
    /\ readySnapshot = <<>>
    /\ migrations = 0
    /\ taskA = "idle"
    /\ clips = <<>>
    /\ frames = {}

MergerInit ==
    /\ pc = "merge"
    /\ \E I \in SpanChoices : \E choice \in [I -> TagChoices] :
          mergeInput = SortedList(I, choice)
    /\ mergeResult = <<>>
    /\ ProcessIdle
    /\ PoolIdle

MergeSegments ==
    /\ pc = "merge"
    /\ mergeResult' = mergeOverlappingSegments(mergeInput)
    /\ pc' = "merged"
    /\ UNCHANGED <<mergeInput, processState, poolVars>>

MergerNext == MergeSegments

MergerSpec == MergerInit /\ [][MergerNext]_vars

-----------------------------------------------------------------------------
(* runWithConcurrencyLimit on its own: every number of items up to           *)
(* MaxPoolItems, every concurrency from 0 to MaxConcurrency, workers that    *)
(* settle in any order, each either fulfilled or rejected.                   *)

MaxPoolItems == 3
MaxConcurrency == 3

(* server.ts 121: Math.max(1, Math.min(concurrency, items.length || 1)) *)
LimitIgnoringConcurrency(concurrency, length) == Max(1, length)

Limit(concurrency, length) ==
    Max(1, Min(concurrency, IF length = 0 THEN 1 ELSE length))

(* server.ts 125-127: a runner holding index, either awaiting the worker it  *)
(* has just invoked or past the break                                        *)
Taken(index, length) ==
    [state |-> IF index >= length THEN "done" ELSE "awaiting", index |-> index]

(* server.ts 127: worker(items[index], index) *)
Invoked(count, index, length) ==
    IF index >= length THEN count ELSE [count EXCEPT ![index] = @ + 1]

PoolInit ==
    /\ pc = "pool"
    /\ poolItems \in 0..MaxPoolItems
    /\ poolConcurrency \in 0..MaxConcurrency
    /\ poolCursor = 0
    /\ runners = <<>>
    /\ calls = [i \in 0..(poolItems - 1) |-> 0]
    /\ finished = {}
    /\ poolState = "pending"
    /\ mergeInput = <<>>
    /\ mergeResult = <<>>
    /\ ProcessIdle

(* server.ts 123-129: Array.from creates the runners one after the other;    *)
(* each runs up to its first await (or its break) as it is created           *)
StartRunner ==
    /\ pc = "pool"
    /\ Len(runners) < Limit(poolConcurrency, poolItems)
    /\ runners' = Append(runners, Taken(poolCursor, poolItems))
    /\ calls' = Invoked(calls, poolCursor, poolItems)
    /\ poolCursor' = poolCursor + 1
    /\ UNCHANGED <<pc, poolItems, poolConcurrency, finished, poolState, mergerVars,
                   processState>>

(* server.ts 127: the promise of the worker invoked by runner r settles; a   *)
(* rejection ends the runner                                                 *)
WorkerSettles(r) ==
    /\ Len(runners) = Limit(poolConcurrency, poolItems)
    /\ runners[r].state = "awaiting"
    /\ \E outcome \in {"resumed", "rejected"} :
          runners' = [runners EXCEPT ![r].state = outcome]
    /\ finished' = finished \cup {runners[r].index}
    /\ UNCHANGED <<pc, poolItems, poolConcurrency, poolCursor, calls, poolState, mergerVars,
                   processState>>

(* server.ts 124-127: the runner continues after its await with the next     *)
(* turn of the loop                                                          *)
RunnerResumes(r) ==
    /\ runners[r].state = "resumed"
    /\ runners' = [runners EXCEPT ![r] = Taken(poolCursor, poolItems)]
    /\ calls' = Invoked(calls, poolCursor, poolItems)
    /\ poolCursor' = poolCursor + 1
    /\ UNCHANGED <<pc, poolItems, poolConcurrency, finished, poolState, mergerVars, processState>>

(* server.ts 131: Promise.all(runners) is fulfilled once every runner is *)
PoolResolves ==
    /\ poolState = "pending"
    /\ Len(runners) = Limit(poolConcurrency, poolItems)
    /\ \A r \in 1..Len(runners) : runners[r].state = "done"
    /\ poolState' = "resolved"
    /\ UNCHANGED <<pc, poolItems, poolConcurrency, poolCursor, runners, calls, finished,
                   mergerVars, processState>>

(* server.ts 131: Promise.all(runners) is rejected as soon as one runner is; *)
(* the other runners go on                                                   *)
PoolRejects ==
    /\ poolState = "pending"
    /\ Len(runners) = Limit(poolConcurrency, poolItems)
    /\ \E r \in 1..Len(runners) : runners[r].state = "rejected"
    /\ poolState' = "rejected"
    /\ UNCHANGED <<pc, poolItems, poolConcurrency, poolCursor, runners, calls, finished,
                   mergerVars, processState>>

PoolNext ==
    \/ StartRunner
    \/ \E r \in 1..Len(runners) : WorkerSettles(r)
    \/ \E r \in 1..Len(runners) : RunnerResumes(r)
    \/ PoolResolves
    \/ PoolRejects

PoolSpec == PoolInit /\ [][PoolNext]_vars

-----------------------------------------------------------------------------

(* Properties *)

(* The final cut has been stored in analysisData.highlightTimestamps. *)
Stored ==
    pc \in {"parallel", "mapFriends", "mapScenery", "mapDietary", "cover", "stage9", "persist",
            "ready"}

Stage2Ran == Len(sorted) > 0

TimesOf(items) ==
    {timeToSeconds(items[i].timestamp) : i \in {j \in 1..Len(items) : Truthy(items[j].timestamp)}}

(* C1: the total duration of the stored final cut never exceeds 125 seconds. *)
DurationBound ==
    Stored => calculateDuration(highlightTimestamps) <= MAX_HIGHLIGHT_DURATION + Overage

DurationBoundWitness ==
    /\ Stored
    /\ Stage2Ran
    /\ calculateDuration(highlightTimestamps) = MAX_HIGHLIGHT_DURATION + Overage

(* C2: any two distinct segments of the stored final cut have disjoint spans. *)
NonOverlap ==
    Stored => \A i, j \in 1..Len(highlightTimestamps) :
                 i # j => \/ timeToSeconds(highlightTimestamps[i].end)
                               <= timeToSeconds(highlightTimestamps[j].start)
                          \/ timeToSeconds(highlightTimestamps[j].end)
                               <= timeToSeconds(highlightTimestamps[i].start)

(* C3: every safety alert with a timestamp lies inside some segment of the   *)
(* stored final cut, unless even a 3-second compressed safety segment would  *)
(* push the total past 125 seconds.                                          *)
SafetyCoverage ==
    Stored => \A t \in TimesOf(safetyAlerts) :
                 \/ Covered(highlightTimestamps, t)
                 \/ calculateDuration(highlightTimestamps) + 3 > MAX_HIGHLIGHT_DURATION + Overage

(* C4: once the session is ready, migrateSessions leaves every friend,       *)
(* scenery and narrative timestamp at the value the original mapping gave.   *)
MigrationKeepsMapping ==
    (pc = "ready" /\ migrations > 0) =>
        /\ \A i \in 1..Len(friends) : friends[i].timestamp = readySnapshot[1].friends[i].timestamp
        /\ \A i \in 1..Len(scenery) : scenery[i].timestamp = readySnapshot[1].scenery[i].timestamp
        /\ \A i \in 1..Len(narrativeSegments) :
              narrativeSegments[i].timestamp = readySnapshot[1].narrativeSegments[i].timestamp

(* Original times probed for the mapping: both ends of every final segment. *)
ProbeTimes(hl) ==
    UNION {{timeToSeconds(hl[i].start), timeToSeconds(hl[i].end)} : i \in 1..Len(hl)}

(* C5: on the stored final cut, original times A < B that both map give      *)
(* mapped(A) <= mapped(B).                                                   *)
MonotonicMapping ==
    Stored =>
        \A A, B \in ProbeTimes(highlightTimestamps) :
            LET mA == mapToHighlightTime(secondsToTime(A), highlightTimestamps)
                mB == mapToHighlightTime(secondsToTime(B), highlightTimestamps)
            IN (A < B /\ mA # Null /\ mB # Null) => timeToSeconds(mA) <= timeToSeconds(mB)

(* The original-time fields of a highlight-mode copy, and what they must be:  *)
(* the times of the entries of the normalized signal that fall in the cut.   *)
OriginalTimesOf(copy) == [i \in 1..Len(copy) |-> copy[i].originalTime]

TimesInCut(signal, timeField) ==
    SelectSeq([i \in 1..Len(signal) |-> signal[i][timeField]],
              LAMBDA t : Covered(highlightTimestamps, timeToSeconds(t)))

(* The copy entry c comes from an entry of the signal with the same payload, *)
(* whose time is c's original time.                                         *)
FromSignal(c, signal, timeField) ==
    \E i \in 1..Len(signal) :
        /\ signal[i][timeField] = c.originalTime
        /\ \A f \in DOMAIN signal[i] \ {timeField} : signal[i][f] = c[f]

FriendsMapped == pc \in {"mapScenery", "mapDietary", "cover", "stage9", "persist", "ready"}
SceneryMapped == pc \in {"mapDietary", "cover", "stage9", "persist", "ready"}
DietaryMapped == pc \in {"cover", "stage9", "persist", "ready"}
Stage9Done == pc \in {"persist", "ready"}

(* The original-time fields in one state; the highlight-mode copies are      *)
(* examined in the state in which they have just been derived.               *)
OriginalTimesState ==
    /\ \A i \in 1..Len(friends) :
          /\ friends[i].originalTimestamp \in {NoTime, input.friends[i].timestamp}
          /\ FriendsMapped /\ Truthy(input.friends[i].timestamp)
                => friends[i].originalTimestamp = input.friends[i].timestamp
          /\ \A j \in 1..Len(friends[i].timestamps) :
                /\ friends[i].timestamps[j].originalTime
                      \in {NoTime, input.friends[i].timestamps[j].time}
                /\ FriendsMapped /\ Truthy(input.friends[i].timestamp)
                      => friends[i].timestamps[j].originalTime
                           = input.friends[i].timestamps[j].time
    /\ \A i \in 1..Len(scenery) :
          /\ scenery[i].originalTime \in {NoTime, input.scenery[i].timestamp}
          /\ SceneryMapped => scenery[i].originalTime = input.scenery[i].timestamp
    /\ \A i \in 1..Len(dietaryHabits) :
          /\ dietaryHabits[i].originalTime \in {NoTime, input.dietaryHabits[i].timestamp}
          /\ DietaryMapped
                => dietaryHabits[i].originalTime = input.dietaryHabits[i].timestamp
    /\ \A i \in 1..Len(narrativeSegments) :
          /\ narrativeSegments[i].originalTime
                \in {NoTime, input.narrativeSegments[i].timestamp}
          /\ Stage9Done
                => narrativeSegments[i].originalTime = input.narrativeSegments[i].timestamp
    /\ Stage9Done => moodDataHighlight # <<>> /\ timelineHighlight # <<>>
    /\ \A c \in Range(moodDataHighlight) :
          pc = "persist" =>
                /\ \A k \in 1..Len(c) : FromSignal(c[k], moodData, "name")
                /\ OriginalTimesOf(c) = TimesInCut(moodData, "name")
                /\ OriginalTimesOf(mapAndFilterForHighlight(c, "name", "originalTime",
                                                            highlightTimestamps))
                      = OriginalTimesOf(c)
    /\ \A c \in Range(timelineHighlight) :
          pc = "persist" =>
                /\ \A k \in 1..Len(c) : FromSignal(c[k], timeline, "time")
                /\ OriginalTimesOf(c) = TimesInCut(timeline, "time")
                /\ OriginalTimesOf(mapAndFilterForHighlight(c, "time", "originalTime",
                                                            highlightTimestamps))
                      = OriginalTimesOf(c)

(* C6: every original-time sibling field equals the timestamp its annotation *)
(* had on input: originalTimestamp on friends, originalTime on friend        *)
(* occurrences, scenery, feeding events and narrative segments, through      *)
(* processVideo and every later migrateSessions pass; and originalTime on    *)
(* every entry of the highlight-mode mood and timeline copies, which is the  *)
(* time of the normalized entry it was copied from.  When the copies have    *)
(* just been derived, each entry carries the payload of the entry it came    *)
(* from, the original times are exactly the normalized times inside the cut, *)
(* and one more mapAndFilterForHighlight pass over a copy keeps them; no     *)
(* later step, migration passes included, touches a derived copy.  A field   *)
(* not yet written is absent; it is written once its stage has run over a    *)
(* timestamped item.                                                         *)
OriginalTimesKept ==
    /\ []OriginalTimesState
    /\ [][/\ moodDataHighlight # <<>> => moodDataHighlight' = moodDataHighlight
          /\ timelineHighlight # <<>> => timelineHighlight' = timelineHighlight]_vars

(* A ready session after a migration pass that has rewritten a scenery        *)
(* timestamp again, with a mapped friend and a mood copy entry whose          *)
(* highlight time differs from its original time.                            *)
OriginalTimesWitness ==
    /\ pc = "ready"
    /\ migrations >= 1
    /\ \E i \in 1..Len(scenery) :
          /\ Truthy(scenery[i].timestamp)
          /\ scenery[i].timestamp # readySnapshot[1].scenery[i].timestamp
          /\ scenery[i].originalTime # scenery[i].timestamp
    /\ \E i \in 1..Len(friends) :
          /\ Truthy(friends[i].timestamp)
          /\ friends[i].originalTimestamp # friends[i].timestamp
          /\ \E j \in 1..Len(friends[i].timestamps) :
                friends[i].timestamps[j].originalTime # friends[i].timestamps[j].time
    /\ \E c \in Range(moodDataHighlight) : \E k \in 1..Len(c) :
          c[k].originalTime # c[k].name
    /\ \E c \in Range(timelineHighlight) : \E k \in 1..Len(c) :
          c[k].originalTime # c[k].time
    /\ \E i \in 1..Len(narrativeSegments) :
          /\ narrativeSegments[i].inHighlight
          /\ narrativeSegments[i].originalTime # narrativeSegments[i].timestamp

(* C7 as stated: an empty raw candidate list gives an empty final cut,       *)
(* whatever annotations are present.                                         *)
EmptyRawGivesEmptyCut ==
    (Stored /\ input.highlightTimestamps = <<>>) => highlightTimestamps = <<>>

NoQualifyingEvent ==
    /\ \A i \in 1..Len(input.friends) :
          Len(input.friends[i].timestamps) = 0 /\ ~Truthy(input.friends[i].timestamp)
    /\ \A i \in 1..Len(input.scenery) :
          input.scenery[i].stayDuration < 3 \/ ~Truthy(input.scenery[i].timestamp)
    /\ TimesOf(input.dietaryHabits) = {}
    /\ TimesOf(input.safetyAlerts) = {}

(* C7 amended: an empty raw candidate list gives an empty final cut when no  *)
(* event class holds a qualifying event with a timestamp.                    *)
EmptyRawNoEventsGivesEmptyCut ==
    (Stored /\ input.highlightTimestamps = <<>> /\ NoQualifyingEvent) => highlightTimestamps = <<>>

EmptyRawNoEventsWitness ==
    /\ Stored
    /\ input.highlightTimestamps = <<>>
    /\ NoQualifyingEvent
    /\ Len(input.friends) > 0
    /\ Len(input.scenery) > 0
    /\ Len(input.dietaryHabits) > 0
    /\ highlightTimestamps = <<>>

(* C8: Stage 2 never discards a safety-tagged segment. *)
SafetyNeverTrimmed ==
    \A i \in 1..Len(trimmedLog) : trimmedLog[i].clip.source # "safety"

(* C13: a safety segment that Stage 2 reaches with 118s already accepted and *)
(* that does not fit in the remaining 2s is kept, compressed to 2s, and the  *)
(* accepted total becomes exactly 120s.                                      *)
Scenario3Compressed ==
    [][(pc = "stage2loop" /\ cursor <= Len(sorted) /\ sorted[cursor].source = "safety"
          /\ currentDuration = 118 /\ SegLen(sorted[cursor]) > 2) =>
        /\ Len(kept') = Len(kept) + 1
        /\ kept'[Len(kept')].start = sorted[cursor].start
        /\ SegLen(kept'[Len(kept')]) = 2
        /\ currentDuration' = 120]_vars

(* C9 as stated: Stage 2 never discards a recurring-subject segment reached  *)
(* while no accepted segment carries its subject name.                       *)
OnlyFriendClipNeverTrimmed ==
    \A i \in 1..Len(trimmedLog) : ~trimmedLog[i].onlyFriend

(* C9 amended: a recurring-subject segment reached while no accepted segment *)
(* carries its subject name is accepted whole when it fits, compressed to the *)
(* remaining budget when at least 3s remain, kept whole when fewer than 3s    *)
(* remain and the total stays within 125s, and discarded otherwise.          *)
OnlyFriendClipRule ==
    [][(pc = "stage2loop" /\ cursor <= Len(sorted)
          /\ sorted[cursor].source = "friend" /\ sorted[cursor].friendName # ""
          /\ sorted[cursor].friendName \notin friendsIncluded) =>
        LET c == sorted[cursor]
            d == SegLen(c)
            remaining == 120 - currentDuration
        IN /\ currentDuration + d <= 120 =>
                 kept' = Append(kept, c) /\ currentDuration' = currentDuration + d
           /\ (currentDuration + d > 120 /\ remaining >= 3) =>
                 /\ kept' = Append(kept, [c EXCEPT !.end =
                                  secondsToTime(timeToSeconds(c.start) + remaining)])
                 /\ currentDuration' = 120
           /\ (remaining < 3 /\ currentDuration + d > 120 /\ currentDuration + d <= 125) =>
                 kept' = Append(kept, c) /\ currentDuration' = currentDuration + d
           /\ (remaining < 3 /\ currentDuration + d > 125) =>
                 kept' = kept /\ Len(trimmedLog') = Len(trimmedLog) + 1]_vars

OnlyFriendClipWitness ==
    /\ pc = "stage2loop"
    /\ \E i \in 1..Len(trimmedLog) :
          trimmedLog[i].onlyFriend /\ trimmedLog[i].before + SegLen(trimmedLog[i].clip) > 125
    /\ \E i \in 1..Len(kept) : kept[i].source = "friend"
    /\ currentDuration > 120

(* C10: after each coverage pass, and up to Stage 2, every qualifying event  *)
(* of the classes already processed, with its timestamp inside the video,    *)
(* lies inside the span of some segment.                                     *)
CoverageAfterGuarantors ==
    /\ pc \in {"scenery", "food", "safety", "stage2"} =>
          \A i \in 1..Len(friends) :
              \A j \in 1..Len(friends[i].timestamps) :
                  LET t == timeToSeconds(friends[i].timestamps[j].time)
                  IN t <= videoDuration => Covered(highlights, t)
    /\ pc \in {"scenery", "food", "safety", "stage2"} =>
          \A i \in 1..Len(friends) :
              (Len(friends[i].timestamps) = 0 /\ Truthy(friends[i].timestamp)
                 /\ timeToSeconds(friends[i].timestamp) <= videoDuration)
              => Covered(highlights, timeToSeconds(friends[i].timestamp))
    /\ pc \in {"food", "safety", "stage2"} =>
          \A i \in 1..Len(scenery) :
              (scenery[i].stayDuration >= 3 /\ Truthy(scenery[i].timestamp)
                 /\ timeToSeconds(scenery[i].timestamp) <= videoDuration)
              => Covered(highlights, timeToSeconds(scenery[i].timestamp))
    /\ pc \in {"safety", "stage2"} =>
          \A t \in TimesOf(dietaryHabits) : t <= videoDuration => Covered(highlights, t)
    /\ pc = "stage2" =>
          \A t \in TimesOf(safetyAlerts) : t <= videoDuration => Covered(highlights, t)

(* All four passes have run over candidates, a friend, a qualifying scenery  *)
(* moment and a safety alert; the synthesized safety segment was merged into *)
(* an earlier segment and a synthesized friend segment stands on its own.    *)
CoverageWitness ==
    /\ pc = "stage2"
    /\ Len(input.highlightTimestamps) > 0
    /\ Len(friends) > 0 /\ Len(safetyAlerts) > 0
    /\ \E i \in 1..Len(scenery) : scenery[i].stayDuration >= 3
    /\ \E i \in 1..Len(highlights) :
          highlights[i].source = "safety" /\ SegLen(highlights[i]) > 5
    /\ \E i \in 1..Len(highlights) : highlights[i].source = "friend"

-----------------------------------------------------------------------------
SpansOf(hl) == [i \in 1..Len(hl) |-> <<timeToSeconds(hl[i].start), timeToSeconds(hl[i].end)>>]

(* C12: in scenario 1 the friend pass adds the segment 0:57-1:04, the final  *)
(* cut is exactly 0:00-0:10, 0:57-1:04 with total 17s, and original second   *)
(* 62 maps to highlight second 15.                                           *)
Scenario1Cut ==
    input = Scenario1 /\ videoDuration = 90 =>
        /\ pc = "scenery" =>
              /\ SpansOf(highlights) = <<<<0, 10>>, <<57, 64>>>>
              /\ highlights[2].source = "friend"
        /\ Stored =>
              /\ SpansOf(highlightTimestamps) = <<<<0, 10>>, <<57, 64>>>>
              /\ calculateDuration(highlightTimestamps) = 17
              /\ mapToHighlightTime(T(1, 2), highlightTimestamps) = T(0, 15)
        /\ Stage9Done => narrativeSegments[1].timestamp = T(0, 15)

Scenario1Witness ==
    /\ pc = "ready"
    /\ input = Scenario1
    /\ videoDuration = 90
    /\ Len(highlightTimestamps) = 2

(* What the mapping of original second t must be on the list hl: absent when *)
(* no span contains t, else the lengths of the segments before the first     *)
(* containing one plus the distance of t from that segment's start.          *)
FirstContaining(hl, t) ==
    CHOOSE i \in 1..Len(hl) : Contains(hl[i], t) /\ \A j \in 1..(i - 1) : ~Contains(hl[j], t)

HighlightTimeOf(t, hl) ==
    IF ~Covered(hl, t) THEN Null
    ELSE LET i == FirstContaining(hl, t)
         IN secondsToTime(calculateDuration(SubSeq(hl, 1, i - 1))
                          + (t - timeToSeconds(hl[i].start)))

(* Original seconds around both ends of every segment, and both ends of the  *)
(* video.                                                                   *)
MapperProbes(hl) ==
    {t \in UNION {{p - 1, p, p + 1} : p \in ProbeTimes(hl) \cup {0, videoDuration}} : t >= 0}

(* C11: mapToHighlightTime gives absent when no segment span contains t or   *)
(* the list is empty, and otherwise the summed lengths of the segments       *)
(* before the first segment containing t plus t minus that segment's start:  *)
(* on every stored cut at the probe times, and in the highlight times that   *)
(* processVideo wrote on friends and narrative segments.                     *)
MapperContract ==
    /\ pc = "mapFriends" =>
          \A t \in MapperProbes(highlightTimestamps) :
              mapToHighlightTime(secondsToTime(t), highlightTimestamps)
                  = HighlightTimeOf(t, highlightTimestamps)
    /\ pc = "mapScenery" =>
          \A i \in 1..Len(friends) :
              Truthy(input.friends[i].timestamp) =>
                  friends[i].timestamp
                      = HighlightTimeOf(timeToSeconds(input.friends[i].timestamp),
                                        highlightTimestamps)
    /\ pc = "persist" =>
          \A i \in 1..Len(narrativeSegments) :
              LET expected == HighlightTimeOf(
                                  timeToSeconds(input.narrativeSegments[i].timestamp),
                                  highlightTimestamps)
              IN /\ narrativeSegments[i].inHighlight = (expected # Null)
                 /\ narrativeSegments[i].inHighlight
                       => narrativeSegments[i].timestamp = expected

(* A ready session whose cut has at least two segments, with a narrative     *)
(* segment mapped from a later segment at a shifted time and another one     *)
(* that fell outside the cut.                                                *)
MapperWitness ==
    /\ pc = "persist"
    /\ Len(highlightTimestamps) >= 2
    /\ \E i \in 1..Len(narrativeSegments) :
          /\ narrativeSegments[i].inHighlight
          /\ ~Contains(highlightTimestamps[1],
                       timeToSeconds(narrativeSegments[i].originalTime))
          /\ narrativeSegments[i].timestamp # narrativeSegments[i].originalTime
    /\ \E i \in 1..Len(narrativeSegments) : ~narrativeSegments[i].inHighlight
    /\ \E i \in 1..Len(friends) : friends[i].isMapped /\ friends[i].timestamp = Null

Analysed == pc # "analyze"

(* C15: normalizeTimeline returns between 15 and 20 entries for every input  *)
(* timeline (empty, sparse or over-long), every mood sequence and every      *)
(* source duration, very short videos included.                              *)
TimelineCardinality ==
    Analysed => Len(timeline) >= 15 /\ Len(timeline) <= 20

TimelineCardinalityWitness ==
    /\ Analysed /\ videoDuration = 3 /\ input.timeline = LongTimeline
    /\ Len(input.moodData) = 2 /\ Len(timeline) = 15

(* Count, ordering, first sample and value range of a resampled mood curve. *)
MoodGridShape(mood, count) ==
    /\ Len(mood) = count
    /\ \A i \in 1..(Len(mood) - 1) : timeToSeconds(mood[i].name) <= timeToSeconds(mood[i + 1].name)
    /\ mood[1].name = T(0, 0)
    /\ \A i \in 1..Len(mood) : mood[i].value \in 0..100

(* C16 as stated: normalizeMoodData returns exactly clamp(round(D/12), 20,   *)
(* 30) samples for every input, times non-decreasing, the first sample at 0, *)
(* the last at D, every value an integer in [0, 100].                        *)
MoodGridEndsAtDuration ==
    pc = "stage1" =>
        /\ MoodGridShape(moodData, clamp(RoundDiv(videoDuration, 12), 20, 30))
        /\ timeToSeconds(moodData[Len(moodData)].name) = videoDuration

(* C16 amended: normalizeMoodData returns exactly clamp(round(S/12), 20, 30) *)
(* samples for every input, where S = max(1, round(D)); times are            *)
(* non-decreasing, the first sample is at 0, the last at S (1s for a video   *)
(* whose duration is 0), and every value is an integer in [0, 100].          *)
MoodGridEndsAtSafeDuration ==
    pc = "stage1" =>
        LET S == Max(1, videoDuration)
        IN /\ MoodGridShape(moodData, clamp(RoundDiv(S, 12), 20, 30))
           /\ timeToSeconds(moodData[Len(moodData)].name) = S

MoodGridWitness ==
    /\ pc = "stage1" /\ videoDuration = 0 /\ Len(moodData) = 20
    /\ input.moodData = <<Mood(T(2, 0), 130), Mood(NoTime, 0 - 5)>>
    /\ moodData[1].value = 0
    /\ moodData[20] = Mood(T(0, 1), 100)

Point(sec, value) == [sec |-> sec, value |-> value]

(* C17: when the cleaned mood points have no point at t=0 (respectively      *)
(* t=D), a boundary point is added there with the value of the earliest      *)
(* (respectively latest) surviving point, and the curve is flat up to the    *)
(* earliest and from the latest point on; for the single input point         *)
(* (30s, 80) and a 60s video the control points are (0,80), (30,80), (60,80) *)
(* and every resampled value is 80.                                          *)
MoodBoundaryPoints ==
    pc = "stage1" =>
        LET S == Max(1, videoDuration)
            cleaned == CleanedMoodPoints(input.moodData, S)
            ctrl == MoodControlPoints(input.moodData, S)
            n == Len(cleaned)
            atStart == IF n > 0 /\ cleaned[1].sec > 0
                       THEN <<Point(0, cleaned[1].value)>> ELSE <<>>
            atEnd == IF n > 0 /\ cleaned[n].sec < S
                     THEN <<Point(S, cleaned[n].value)>> ELSE <<>>
        IN /\ n > 0 => ctrl = atStart \o cleaned \o atEnd
           /\ n > 0 => \A i \in 1..Len(moodData) :
                  /\ timeToSeconds(moodData[i].name) <= cleaned[1].sec
                        => moodData[i].value = cleaned[1].value
                  /\ timeToSeconds(moodData[i].name) >= cleaned[n].sec
                        => moodData[i].value = cleaned[n].value
           /\ (input.moodData = <<Mood(T(0, 30), 80)>> /\ videoDuration = 60) =>
                  /\ ctrl = <<Point(0, 80), Point(30, 80), Point(60, 80)>>
                  /\ \A i \in 1..Len(moodData) : moodData[i].value = 80

MoodBoundaryWitness ==
    /\ pc = "stage1" /\ videoDuration = 60 /\ input.moodData = <<Mood(T(0, 30), 80)>>
    /\ Len(moodData) = 20 /\ moodData[1] = Mood(T(0, 0), 80) /\ moodData[20] = Mood(T(1, 0), 80)

Timed(items) == SelectSeq(items, LAMBDA x : Truthy(x.timestamp))

TimedOccurrences(fs) ==
    [i \in 1..Len(fs) |->
        [fs[i] EXCEPT !.timestamps = SelectSeq(fs[i].timestamps, LAMBDA o : Truthy(o.time))]]

(* C18: an annotation without a timestamp (friend occurrence, scenery        *)
(* moment, feeding event, safety alert) is skipped by the coverage           *)
(* guarantors: every pass leaves the segment list it would leave if the      *)
(* annotation were absent, so no segment is synthesized for it.              *)
UntimedAnnotationsSkipped ==
    [][/\ pc = "friends" =>
            highlights' = ensureFriendsInHighlights(TimedOccurrences(friends), highlights,
                                                    videoDuration, 3)
       /\ pc = "scenery" =>
            highlights' = ensureSceneryInHighlights(Timed(scenery), highlights, videoDuration, 2)
       /\ pc = "food" =>
            highlights' = ensureFoodInHighlights(Timed(dietaryHabits), highlights,
                                                 videoDuration, 1)
       /\ pc = "safety" =>
            highlights' = ensureSafetyAlertsInHighlights(Timed(safetyAlerts), highlights,
                                                         videoDuration, 1)]_vars

(* The items of a signal whose time lies inside a segment of the cut, in     *)
(* order, each at its highlight time with its original time beside it.       *)
ExpectedCopy(signal, timeField, hl) ==
    LET inside == SelectSeq(signal, LAMBDA x : Covered(hl, timeToSeconds(x[timeField])))
    IN [i \in 1..Len(inside) |->
           [f \in DOMAIN inside[i] \cup {"originalTime", "isMapped"} |->
               IF f = timeField THEN HighlightTimeOf(timeToSeconds(inside[i][timeField]), hl)
               ELSE IF f = "originalTime" THEN inside[i][timeField]
               ELSE IF f = "isMapped" THEN TRUE
               ELSE inside[i][f]]]

(* C19: deriving the highlight-mode copies leaves the normalized mood and    *)
(* timeline sequences unchanged, and each copy holds, in original order,     *)
(* exactly the items whose original time lies inside a final segment, each   *)
(* with its time replaced by the mapped highlight time and its original time *)
(* kept in originalTime.                                                     *)
HighlightCopies ==
    [][/\ Analysed => moodData' = moodData /\ timeline' = timeline
       /\ (pc = "stage9" /\ pc' # pc) =>
             /\ highlights = highlightTimestamps
             /\ timelineHighlight' = <<ExpectedCopy(timeline, "time", highlightTimestamps)>>
             /\ moodDataHighlight' = <<ExpectedCopy(moodData, "name", highlightTimestamps)>>]_vars

HighlightCopiesWitness ==
    /\ pc = "persist" /\ Len(highlightTimestamps) >= 2
    /\ Len(moodDataHighlight[1]) > 0 /\ Len(moodDataHighlight[1]) < Len(moodData)
    /\ Len(timelineHighlight[1]) > 0 /\ Len(timelineHighlight[1]) < Len(timeline)
    /\ \E i \in 1..Len(moodDataHighlight[1]) :
          moodDataHighlight[1][i].name # moodDataHighlight[1][i].originalTime
    /\ \A i \in 1..Len(moodData) : DOMAIN moodData[i] = {"name", "value"}

(* The scenery moment was given a segment flagged "near a subject" by the   *)
(* scenery pass (the list Stage 2 started from still holds it).              *)
NearSubject(scene) ==
    \E i \in 1..Len(sorted) :
        /\ sorted[i].source = "scenery" /\ sorted[i].isNearFriend
        /\ Contains(sorted[i], timeToSeconds(scene.timestamp))

BetterScene(a, b) ==
    \/ NearSubject(a) /\ ~NearSubject(b)
    \/ (NearSubject(a) <=> NearSubject(b)) /\ a.stayDuration > b.stayDuration

(* C20: if a scenery moment with dwell >= 3s exists and none lies in a       *)
(* segment surviving Stage 2, exactly one scenery segment                    *)
(* [max(0, t-2), min(D, t + min(dwell, 5))] for the best moment (near a      *)
(* subject preferred, then longest dwell) is inserted when and only when the *)
(* resulting total is <= 125s; in every other case the cut is unchanged.     *)
ZeroCoverageFallback ==
    [][pc = "fallback" =>
        LET sig == SelectSeq(scenery, LAMBDA x : x.stayDuration >= 3 /\ Truthy(x.timestamp))
            uncovered == \A i \in 1..Len(sig) :
                            ~Covered(highlights, timeToSeconds(sig[i].timestamp))
            best == {b \in Range(sig) : \A o \in Range(sig) : ~BetterScene(o, b)}
            Inserted(b) ==
                LET t == timeToSeconds(b.timestamp)
                    start == Max(0, t - 2)
                    end == Min(videoDuration, t + Min(b.stayDuration, 5))
                IN IF calculateDuration(highlights) + (end - start) <= 125
                   THEN /\ Len(highlights') = Len(highlights) + 1
                        /\ \E k \in 1..Len(highlights') :
                              /\ SpansOf(highlights')[k] = <<start, end>>
                              /\ highlights'[k].source = "scenery"
                              /\ \A j \in 1..Len(highlights) :
                                    highlights[j] = highlights'[IF j < k THEN j ELSE j + 1]
                   ELSE highlights' = highlights
        IN IF Len(sig) > 0 /\ uncovered
           THEN \E b \in best : Inserted(b)
           ELSE highlights' = highlights]_vars

NoEventClasses ==
    /\ input.friends = <<>> /\ input.scenery = <<>>
    /\ input.dietaryHabits = <<>> /\ input.safetyAlerts = <<>>

Chronological(hl) ==
    \A i, j \in 1..Len(hl) : i < j => timeToSeconds(hl[i].start) <= timeToSeconds(hl[j].start)

(* The cut holds candidates of the raw list only, each at most once, in      *)
(* chronological order, and lasts at most 120s.                              *)
SubsetOfRaw(hl, raw) ==
    /\ Range(hl) \subseteq Range(raw)
    /\ \A i, j \in 1..Len(hl) : i # j => hl[i] # hl[j]
    /\ Chronological(hl)
    /\ calculateDuration(hl) <= 120

(* C14 as stated: when the raw candidates total more than 120s and every     *)
(* event class is empty, the final cut is a chronologically ordered subset   *)
(* of the raw candidates lasting at most 120s, and no dropped candidate has  *)
(* a higher score than a kept one.                                           *)
OnlyLowestScoredDropped ==
    (Stored /\ NoEventClasses /\ calculateDuration(input.highlightTimestamps) > 120) =>
        /\ SubsetOfRaw(highlightTimestamps, input.highlightTimestamps)
        /\ \A d \in Range(input.highlightTimestamps) \ Range(highlightTimestamps) :
              \A k \in Range(highlightTimestamps) : d.score <= k.score

(* Candidates ranked before raw[d] by the stable descending sort on score. *)
RankedBefore(raw, d) ==
    {k \in 1..Len(raw) : raw[k].score > raw[d].score
                           \/ (raw[k].score = raw[d].score /\ k < d)}

RECURSIVE LengthOf(_, _, _)
LengthOf(raw, K, i) ==
    IF i > Len(raw) THEN 0
    ELSE (IF i \in K THEN SegLen(raw[i]) ELSE 0) + LengthOf(raw, K, i + 1)

(* C14 amended: when the raw candidates total more than 120s and every      *)
(* event class is empty, the final cut is a chronologically ordered subset   *)
(* of the raw candidates lasting at most 120s, nothing is synthesized, and a *)
(* candidate is dropped exactly when it does not fit in 120s on top of the   *)
(* kept candidates ranked before it; a shorter lower-scored candidate that   *)
(* still fits is kept.                                                       *)
DroppedOnlyWhenNotFitting ==
    (Stored /\ NoEventClasses /\ calculateDuration(input.highlightTimestamps) > 120) =>
        LET raw == input.highlightTimestamps
            K == {i \in 1..Len(raw) : raw[i] \in Range(highlightTimestamps)}
        IN /\ SubsetOfRaw(highlightTimestamps, raw)
           /\ \A d \in 1..Len(raw) :
                 d \in K <=> LengthOf(raw, K \cap RankedBefore(raw, d), 1) + SegLen(raw[d]) <= 120

DroppedOnlyWhenNotFittingWitness ==
    /\ pc = "ready" /\ input = Scenario2
    /\ Len(highlightTimestamps) = 6
    /\ \E i \in 1..6 : highlightTimestamps[i].score = 6

(* C21: the stored final cut is sorted ascending by start time, whichever of *)
(* Stage 1, the coverage passes, Stage 2 and the fallback ran.               *)
FinalCutSorted ==
    Stored => Chronological(highlightTimestamps)

(* C22: a coverage pass whose event class holds no annotation hands back the *)
(* segment list it was given: the same segments in the same order with the   *)
(* same start, end, tag, score and flags, nothing synthesized, nothing       *)
(* merged and nothing re-ordered.                                            *)
EmptyClassDisablesGuarantor ==
    [][/\ (pc = "friends" /\ friends = <<>>) => highlights' = highlights
       /\ (pc = "scenery" /\ scenery = <<>>) => highlights' = highlights
       /\ (pc = "food" /\ dietaryHabits = <<>>) => highlights' = highlights
       /\ (pc = "safety" /\ safetyAlerts = <<>>) => highlights' = highlights]_vars

(* All four passes have run over empty classes on a list that a sort and a   *)
(* merge would have changed.                                                 *)
EmptyClassWitness ==
    /\ pc = "stage2"
    /\ NoEventClasses
    /\ friends = <<>> /\ scenery = <<>> /\ dietaryHabits = <<>> /\ safetyAlerts = <<>>
    /\ Len(highlights) = 2
    /\ highlights = input.highlightTimestamps
    /\ mergeOverlappingSegments(SortByStart(highlights)) # highlights

StartOf(seg) == timeToSeconds(seg.start)
EndOf(seg) == timeToSeconds(seg.end)

(* The result segment that spans an argument segment. *)
Spanning(result, seg) ==
    {j \in 1..Len(result) : StartOf(result[j]) <= StartOf(seg) /\ EndOf(seg) <= EndOf(result[j])}

(* C23: for a list sorted by start, mergeOverlappingSegments returns a list  *)
(* sorted by start and pairwise disjoint, in which each segment starts more  *)
(* than 2s after the end of the one before it, and every span of the         *)
(* argument lies inside the span of a returned segment.                      *)
MergedSortedDisjoint ==
    pc = "merged" =>
        /\ \A i, j \in 1..Len(mergeResult) :
              i < j => /\ StartOf(mergeResult[i]) <= StartOf(mergeResult[j])
                       /\ EndOf(mergeResult[i]) < StartOf(mergeResult[j])
        /\ \A i \in 1..Len(mergeResult) - 1 :
              StartOf(mergeResult[i + 1]) > EndOf(mergeResult[i]) + 2
        /\ \A i \in 1..Len(mergeInput) : Spanning(mergeResult, mergeInput[i]) # {}

(* Three segments, the second 2s after the first and merged with it, the     *)
(* third 3s after the second and kept apart.                                 *)
MergedSortedDisjointWitness ==
    /\ pc = "merged"
    /\ SpansOf(mergeInput) = <<<<5, 20>>, <<22, 30>>, <<33, 40>>>>
    /\ SpansOf(mergeResult) = <<<<5, 30>>, <<33, 40>>>>

(* C24: the tag of a returned segment never ranks lower, under safety 100 >  *)
(* combined 95 > recurring subject 80 > feeding 60 > scenery 40 > ai-scored  *)
(* 10, than the tag of any argument segment merged into it, in whatever      *)
(* chronological order the tags come.                                        *)
MergedTagRanksHighest ==
    pc = "merged" =>
        \A i \in 1..Len(mergeInput) :
            \A j \in Spanning(mergeResult, mergeInput[i]) :
                getSourcePriority(mergeResult[j].source)
                    >= getSourcePriority(mergeInput[i].source)

(* C25: when segments are merged and one of them carries a subject name, the *)
(* returned segment carries a subject name, whichever tag ranks higher.      *)
MergedKeepsSubjectName ==
    pc = "merged" =>
        \A i \in 1..Len(mergeInput) :
            mergeInput[i].friendName # "" =>
                \A j \in Spanning(mergeResult, mergeInput[i]) : mergeResult[j].friendName # ""

(* The times at which a recurring subject is seen: its occurrences, or its   *)
(* own timestamp when it lists none; 0:00 is a time like any other.          *)
SubjectTimes(fs) ==
    UNION {IF Len(fs[i].timestamps) > 0
           THEN {timeToSeconds(fs[i].timestamps[j].time) :
                    j \in {k \in 1..Len(fs[i].timestamps) : Truthy(fs[i].timestamps[k].time)}}
           ELSE IF Truthy(fs[i].timestamp) THEN {timeToSeconds(fs[i].timestamp)} ELSE {} :
           i \in 1..Len(fs)}

(* C26: in Stage 1 the enhanced score of a candidate is its own score plus   *)
(* 50 exactly when its span contains the time of a recurring-subject         *)
(* occurrence, 0:00 included, or of a scenery moment with dwell >= 5s, and   *)
(* its own score otherwise.                                                  *)
EnhancedScoreRule ==
    (pc = "stage1" /\ calculateDuration(highlights) > 120) =>
        \A i \in 1..Len(highlights) :
            LET clip == highlights[i]
                covers == \/ \E t \in SubjectTimes(friends) : Contains(clip, t)
                          \/ \E j \in 1..Len(scenery) :
                                /\ scenery[j].stayDuration >= 5 /\ Truthy(scenery[j].timestamp)
                                /\ Contains(clip, timeToSeconds(scenery[j].timestamp))
            IN getEnhancedScore(clip, friends, scenery)
                  = clip.score + (IF covers THEN 50 ELSE 0)

EnginePcs == {"stage1", "cap", "friends", "scenery", "food", "safety", "stage2", "stage2loop",
              "fallback"}

ClipsOfStoredCut ==
    /\ Len(clips) = Len(highlightTimestamps)
    /\ \A i \in 1..Len(clips) :
          clips[i] = <<highlightTimestamps[i].start, highlightTimestamps[i].end>>

(* C27: the curation engine runs only once analyzeVideo has returned its     *)
(* analysis, the final segment list is stored before generateHighlights      *)
(* starts, generateHighlights cuts exactly the stored segments, and from its *)
(* start on no step (frame extraction, Stage 9 mapping, migration) changes   *)
(* the list.                                                                 *)
CurationBeforeHighlights ==
    /\ [](/\ pc = "analyze" => (input = NoAnalysis /\ highlights = <<>> /\ taskA = "idle")
          /\ pc \in EnginePcs => taskA = "idle"
          /\ taskA # "idle" => (Stored /\ pc # "parallel" /\ highlightTimestamps = highlights
                                /\ ClipsOfStoredCut))
    /\ [][/\ input' # input => (pc = "analyze" /\ pc' = "stage1")
          /\ pc \in EnginePcs => pc' \in EnginePcs \cup {"parallel"}]_vars
    /\ [][taskA # "idle" => (/\ highlightTimestamps' = highlightTimestamps
                             /\ highlights' = highlights
                             /\ clips' = clips)]_vars

(* generateHighlights is cutting two or more clips while Task B has already  *)
(* extracted frames and rewritten the scenery timestamps.                    *)
CurationBeforeHighlightsWitness ==
    /\ taskA = "running"
    /\ pc = "mapDietary"
    /\ Len(clips) >= 2
    /\ frames # {}
    /\ \E i \in 1..Len(scenery) : scenery[i].timestamp # input.scenery[i].timestamp

(* C29: every frame extracted (friend, scenery, feeding, cover) is taken at  *)
(* a timestamp of the original video as the analysis gave it: the friend's   *)
(* best-photo or first timestamp, the scenery or feeding item's timestamp,   *)
(* and for the cover the analysis's cover timestamp, else the first scenery  *)
(* moment's original timestamp, else 0:05.                                   *)
FramesAtOriginalTimes ==
    \A f \in frames :
       CASE f.kind = "friend" -> f.time = FriendFrameTime(input.friends[f.index])
         [] f.kind = "scene" -> f.time = input.scenery[f.index].timestamp
         [] f.kind = "food" -> f.time = input.dietaryHabits[f.index].timestamp
         [] f.kind = "cover" -> f.time = CoverTs(input.coverTimestamp, input.scenery)

(* C28: once the signals are normalized, every timeline entry has its time   *)
(* in [0, D], D being the rounded video duration and at least 1, and the     *)
(* entries are in non-decreasing order of time.                              *)
TimelineWithinDuration ==
    pc # "analyze" =>
       /\ \A i \in 1..Len(timeline) :
             /\ timeToSeconds(timeline[i].time) >= 0
             /\ timeToSeconds(timeline[i].time) <= Max(1, videoDuration)
       /\ \A i, j \in 1..Len(timeline) :
             i < j => timeToSeconds(timeline[i].time) <= timeToSeconds(timeline[j].time)

InFlight == {r \in 1..Len(runners) : runners[r].state = "awaiting"}

(* Every runner has been created and has left its loop. *)
Quiescent ==
    /\ Len(runners) = Limit(poolConcurrency, poolItems)
    /\ \A r \in 1..Len(runners) : runners[r].state \in {"done", "rejected"}

(* The statement of C30 for every worker, rejecting ones included: at most   *)
(* once per index, at most max(1, min(n, items.length)) in flight, the       *)
(* worker has been invoked exactly once for every index when the runners     *)
(* have stopped, and the promise is fulfilled only after every invocation    *)
(* has finished.                                                             *)
PoolInvokesEveryIndex ==
    pc = "pool" =>
       /\ \A i \in DOMAIN calls : calls[i] <= 1
       /\ Cardinality(InFlight) <= Max(1, Min(poolConcurrency, poolItems))
       /\ Quiescent => \A i \in 0..(poolItems - 1) : calls[i] = 1
       /\ poolState = "resolved" => (InFlight = {} /\ finished = 0..(poolItems - 1))

(* C30: runWithConcurrencyLimit invokes the worker at most once for each     *)
(* index and only for indices of items, never has more than                  *)
(* max(1, min(n, items.length)) invocations in flight, and, in every order   *)
(* in which the workers settle, its promise is fulfilled only when the       *)
(* worker has been invoked exactly once for every index and every            *)
(* invocation has finished; when no invocation is rejected the runners stop  *)
(* only after invoking the worker for every index.                           *)
PoolRunsEachItemOnce ==
    pc = "pool" =>
       /\ DOMAIN calls = 0..(poolItems - 1)
       /\ \A i \in DOMAIN calls : calls[i] <= 1
       /\ finished \subseteq {i \in DOMAIN calls : calls[i] = 1}
       /\ \A r \in InFlight : runners[r].index \notin finished
       /\ Cardinality(InFlight) <= Max(1, Min(poolConcurrency, poolItems))
       /\ (Quiescent /\ \A r \in 1..Len(runners) : runners[r].state = "done")
             => \A i \in 0..(poolItems - 1) : calls[i] = 1 /\ i \in finished
       /\ poolState = "resolved" =>
             /\ \A i \in 0..(poolItems - 1) : calls[i] = 1 /\ i \in finished
             /\ InFlight = {}

(* Three items were processed two at a time, and the call has resolved. *)
PoolRunsEachItemOnceWitness ==
    /\ pc = "pool"
    /\ poolState = "resolved"
    /\ poolItems = 3
    /\ poolConcurrency = 2
    /\ finished = {0, 1, 2}

TypeOK ==
    /\ \A i \in 1..Len(highlights) : highlights[i].start.k = "str"
    /\ migrations \in 0..MaxMigrations

====
